---- MODULE Spec2Model ----
(***************************************************************************)
(* State-machine model of the suzent server core: the chat turn processor  *)
(* (ChatProcessor.process_turn) with its four callers (POST /chat, the     *)
(* social consumer, the cron scheduler, the heartbeat runner), the cron    *)
(* job bookkeeping, and the WebSocket node request/response pairing.       *)
(*                                                                         *)
(* One action is one run of a coroutine between two suspension points      *)
(* (asyncio: a single host loop, cooperative scheduling).                  *)
(***************************************************************************)
EXTENDS Integers, Sequences, FiniteSets, TLC

\* ------------------------------------------------------------------ bounds

\* Number of turns (process_turn activations) that can be in flight at once.
MaxTurns == 2
\* Number of turns started in one behaviour.
MaxStarts == 2
\* Minutes the wall clock advances in one behaviour.
MaxClock == 1

\* invocations made on the node, and messages its client sends
MaxInvokes == 2

MaxMessages == 3

Turns == 1..MaxTurns

\* ------------------------------------------------------------ chat ids

HTTP_CHAT_ID == "c1"
\* a chat id a POST /chat request names that has no record in the store (a
\* request without chat_id hands None to process_turn, which the store does
\* not know either)
NEW_CHAT_ID == "c2"
CRON_CHAT_ID == "cron-1"
HEARTBEAT_CHAT_ID == "heartbeat-main"
SOCIAL_CHAT_ID == "social-telegram-u1"

HttpChatIds == {HTTP_CHAT_ID, NEW_CHAT_ID}

ChatIds == HttpChatIds \cup {CRON_CHAT_ID, HEARTBEAT_CHAT_ID, SOCIAL_CHAT_ID}

HEARTBEAT_OK == "HEARTBEAT_OK"

\* Final answers an agent run can produce: the heartbeat prompt asks for
\* HEARTBEAT_OK when nothing needs attention.
Answers(chat) == IF chat = HEARTBEAT_CHAT_ID THEN {"alert", HEARTBEAT_OK} ELSE {"answer"}

\* next_run_at of a job that has none.
NoTime == -1

VARIABLES
    chats,              \* chat store: chat id -> [exists, messages, agent_state]
    stream_controls,    \* streaming registry: chat id -> "absent" | "active" | "cancelled"
    turns,              \* turn slot -> the locals of one process_turn activation and of its caller
    started,            \* number of turns started so far
    clock,              \* datetime.now(), in minutes
    cron_job,           \* the cron_jobs row of the job
    cron_runs,          \* the cron_runs table: run id -> [status, closes]
    pending_notifications, \* SchedulerBrain._pending_notifications
    heartbeat,          \* HeartbeatRunner: [last_run_at, last_result, last_error, notified]
    tasks,              \* tasks made by asyncio.create_task that have not started yet
    failed_in_a_row,    \* history: executions of the job that failed since the last one that did not
    nodes,              \* NodeManager.nodes: the ids of the registered nodes
    node_status,        \* WebSocketNode.status of the node, "none" before it is made
    ws,                 \* the node's WebSocket: "none", "open", "lost" (the peer is gone), "closed"
    pending,            \* WebSocketNode._pending: the request ids with a future
    invocations,        \* the calls of WebSocketNode.invoke, each with its future
    inbox,              \* messages the client has sent that the endpoint has not read
    sent,               \* number of messages the client has sent
    unknown_warned,     \* request ids logged as unknown by handle_message
    agent_instance,     \* agent_manager.agent_instance: 0 for None, else the agent built n-th
    agent_config,       \* agent_manager.agent_config: <<>> for None, else <<config>>
    agent_builds,       \* number of agents create_agent has built
    agent_call,         \* the last call of get_or_create_agent: its arguments and outcome
    codec,               \* the last use of the agent state codec: its input, the bytes and what came back
    compressor,    \* the memory of the agent given to compress_context and what the last call reported
    runner,    \* HeartbeatRunner: _enabled, _running, _task, the loop tasks it made and its disable() calls in flight
    tick,    \* the end of one HeartbeatRunner._tick: the final answer, the response, what was recorded and notified
    drain,    \* history of the notification deque: ids pushed, drains made, what the last drain returned
    social,    \* SocialBrain: its allow-lists, the message queue, the _handle_message tasks and what they did
    manager,    \* NodeManager.nodes in insertion order, and what the last invoke did
    host,    \* NodeHost: the stop flag, its socket, the messages not yet read and the results sent
    endpoint,    \* /ws/node: each connection's endpoint call and the registry it writes
    prefs,    \* the saved user preferences and the last call of process_turn by a route or by SocialBrain
    creation,    \* the provider configuration and the last call of create_agent
    memory,    \* one daily log file, the facts appended to it, and the vector store of the user
    interval,    \* HeartbeatRunner.interval_minutes, whether its loop runs, and the last call of set_interval
    holders,    \* the activations of process_turn that hold an agent: where each is, its agent and its chat
    auth    \* APIKeyAuthMiddleware: its keys, the hash its set of hashes yields first, and the last request it dispatched

vars == <<chats, stream_controls, turns, started, clock, cron_job, cron_runs,
          pending_notifications, heartbeat, tasks, failed_in_a_row,
          nodes, node_status, ws, pending, invocations, inbox, sent, unknown_warned,
          agent_instance, agent_config, agent_builds, agent_call, codec, compressor, runner, tick, drain, social, manager, host, endpoint, prefs, creation, memory, interval, holders, auth>>
callerVars == <<cron_job, cron_runs, pending_notifications, heartbeat, failed_in_a_row>>
coreVars == <<chats, stream_controls, turns, started, clock, tasks>>
nodeVars == <<nodes, node_status, ws, pending, invocations, inbox, sent, unknown_warned>>
agentVars == <<agent_instance, agent_config, agent_builds, agent_call>>
codecVars == <<codec>>
compressorVars == <<compressor>>
runnerVars == <<runner>>
tickVars == <<tick>>
drainVars == <<drain>>
socialVars == <<social>>
managerVars == <<manager>>
hostVars == <<host>>
endpointVars == <<endpoint>>
prefsVars == <<prefs>>
creationVars == <<creation>>
memoryVars == <<memory>>
intervalVars == <<interval>>
holderVars == <<holders>>
authVars == <<auth>>
nonCoreVars == <<nodeVars, agentVars, codecVars, compressorVars, runnerVars, tickVars, drainVars, socialVars, managerVars, hostVars, endpointVars, prefsVars, creationVars, memoryVars, intervalVars, holderVars, authVars>>
nonNodeVars == <<coreVars, callerVars, agentVars, codecVars, compressorVars, runnerVars, tickVars, drainVars, socialVars, managerVars, hostVars, endpointVars, prefsVars, creationVars, memoryVars, intervalVars, holderVars, authVars>>
nonAgentVars == <<coreVars, callerVars, nodeVars, codecVars, compressorVars, runnerVars, tickVars, drainVars, socialVars, managerVars, hostVars, endpointVars, prefsVars, creationVars, memoryVars, intervalVars, holderVars, authVars>>
nonCodecVars == <<coreVars, callerVars, nodeVars, agentVars, compressorVars, runnerVars, tickVars, drainVars, socialVars, managerVars, hostVars, endpointVars, prefsVars, creationVars, memoryVars, intervalVars, holderVars, authVars>>
nonCompressorVars == <<coreVars, callerVars, nodeVars, agentVars, codecVars, runnerVars, tickVars, drainVars, socialVars, managerVars, hostVars, endpointVars, prefsVars, creationVars, memoryVars, intervalVars, holderVars, authVars>>
nonRunnerVars == <<coreVars, callerVars, nodeVars, agentVars, codecVars, compressorVars, tickVars, drainVars, socialVars, managerVars, hostVars, endpointVars, prefsVars, creationVars, memoryVars, intervalVars, holderVars, authVars>>
nonTickVars == <<coreVars, callerVars, nodeVars, agentVars, codecVars, compressorVars, runnerVars, drainVars, socialVars, managerVars, hostVars, endpointVars, prefsVars, creationVars, memoryVars, intervalVars, holderVars, authVars>>
\* all but the notification deque and its history
nonDrainVars == <<coreVars, cron_job, cron_runs, heartbeat, failed_in_a_row, nodeVars, agentVars, codecVars, compressorVars, runnerVars, tickVars, socialVars, managerVars, hostVars, endpointVars, prefsVars, creationVars, memoryVars, intervalVars, holderVars, authVars>>
nonSocialVars == <<coreVars, callerVars, nodeVars, agentVars, codecVars, compressorVars, runnerVars, tickVars, drainVars, managerVars, hostVars, endpointVars, prefsVars, creationVars, memoryVars, intervalVars, holderVars, authVars>>
nonManagerVars == <<coreVars, callerVars, nodeVars, agentVars, codecVars, compressorVars, runnerVars, tickVars, drainVars, socialVars, hostVars, endpointVars, prefsVars, creationVars, memoryVars, intervalVars, holderVars, authVars>>
nonHostVars == <<coreVars, callerVars, nodeVars, agentVars, codecVars, compressorVars, runnerVars, tickVars, drainVars, socialVars, managerVars, endpointVars, prefsVars, creationVars, memoryVars, intervalVars, holderVars, authVars>>
nonEndpointVars == <<coreVars, callerVars, nodeVars, agentVars, codecVars, compressorVars, runnerVars, tickVars, drainVars, socialVars, managerVars, hostVars, prefsVars, creationVars, memoryVars, intervalVars, holderVars, authVars>>
nonPrefsVars == <<coreVars, callerVars, nodeVars, agentVars, codecVars, compressorVars, cron_job, cron_runs, drainVars, endpointVars, failed_in_a_row, heartbeat, hostVars, managerVars, runnerVars, socialVars, tickVars, creationVars, memoryVars, intervalVars, holderVars, authVars>>
nonCreationVars == <<coreVars, callerVars, nodeVars, agentVars, codecVars, compressorVars, cron_job, cron_runs, drainVars, endpointVars, failed_in_a_row, heartbeat, hostVars, managerVars, prefsVars, runnerVars, socialVars, tickVars, memoryVars, intervalVars, holderVars, authVars>>
nonMemoryVars == <<coreVars, callerVars, nodeVars, agentVars, codecVars, compressorVars, creationVars, cron_job, cron_runs, drainVars, endpointVars, failed_in_a_row, heartbeat, hostVars, managerVars, prefsVars, runnerVars, socialVars, tickVars, intervalVars, holderVars, authVars>>
nonIntervalVars == <<coreVars, callerVars, nodeVars, agentVars, codecVars, compressorVars, creationVars, cron_job, cron_runs, drainVars, endpointVars, failed_in_a_row, heartbeat, hostVars, managerVars, memoryVars, prefsVars, runnerVars, socialVars, tickVars, holderVars, authVars>>
nonHolderVars == <<coreVars, callerVars, nodeVars, agentVars, codecVars, compressorVars, runnerVars, tickVars, drainVars, socialVars, managerVars, hostVars, endpointVars, prefsVars, creationVars, memoryVars, intervalVars, authVars>>
nonAuthVars == <<coreVars, callerVars, nodeVars, agentVars, codecVars, compressorVars, runnerVars, tickVars, drainVars, socialVars, managerVars, hostVars, endpointVars, prefsVars, creationVars, memoryVars, intervalVars, holderVars>>
\* all but the agent cache and the activations holding its agent
nonAgentVarsOfTurn == <<coreVars, callerVars, nodeVars, codecVars, compressorVars, runnerVars, tickVars, drainVars, socialVars, managerVars, hostVars, endpointVars, prefsVars, creationVars, memoryVars, intervalVars, authVars>>

\* ------------------------------------------------------------ chat store

GetChat(c) == chats[c]

CreateChat(c) ==
    [chats EXCEPT ![c] = [exists |-> TRUE, messages |-> <<>>, agent_state |-> 0]]

\* _ensure_cron_chat / _ensure_heartbeat_chat / _ensure_chat_exists
EnsureChat(c) == IF GetChat(c).exists THEN chats ELSE CreateChat(c)

\* update(id, {messages, agent_state}): one atomic update; NotFound on an unknown id
UpdateChat(c, agent_state, messages) ==
    IF GetChat(c).exists
    THEN [chats EXCEPT ![c] = [@ EXCEPT !.agent_state = agent_state,
                                        !.messages = messages]]
    ELSE chats

\* --------------------------------------------------------- streaming bus

StreamActive(c) == stream_controls[c] # "absent"

RegisterStream(c) == [stream_controls EXCEPT ![c] = "active"]

UnregisterStream(c) == [stream_controls EXCEPT ![c] = "absent"]

\* ------------------------------------------------------------- scheduler

max_retries == 5

Pow2(n) == 2 ^ n

\* the first matching time at or after now
CronNextAtOrAfter(period, now) == ((now + period - 1) \div period) * period

\* croniter(cron_expr, now).get_next(): the first matching time later than
\* now, for the expression "every `period` minutes".
CronNext(period, now) == ((now \div period) + 1) * period

UpdateCronJobRunState(job, fields) ==
    [k \in DOMAIN job |-> IF k \in DOMAIN fields THEN fields[k] ELSE job[k]]

FinishCronRun(runs, run_id, status) ==
    [runs EXCEPT ![run_id] = [status |-> status, closes |-> @.closes + 1]]

\* SchedulerBrain._handle_retry
HandleRetry(job, current_retry, now) ==
    IF current_retry < max_retries
    THEN UpdateCronJobRunState(job,
             [last_error |-> "error",
              next_run_at |-> now + Pow2(current_retry),
              retry_count |-> current_retry + 1])
    ELSE [UpdateCronJobRunState(job, [last_error |-> "max_retries"])
             EXCEPT !.active = FALSE]

\* deque(maxlen=20).append
NotificationsMaxLen == 20

DequeAppend(q, x) ==
    IF Len(q) >= NotificationsMaxLen THEN Append(Tail(q), x) ELSE Append(q, x)

\* ------------------------------------------------------------- heartbeat

\* HeartbeatRunner._is_heartbeat_ok on the responses of this model
IsHeartbeatOk(response) == response = "" \/ response = HEARTBEAT_OK

\* ------------------------------------------------------------------ init

\* cron_expr of the job: "every 2 minutes"
CronPeriods == {2}

IdleTurn ==
    [pc |-> "idle", caller |-> "none", chat |-> "none",
     agent_steps |-> 0, full_response |-> "",
     error |-> FALSE, cancelled |-> FALSE, registered |-> FALSE,
     job_retry |-> 0, now |-> 0, run_id |-> 0, start_log |-> <<>>]

\* the cron_jobs row of an active job, created a minute ago, whose last
\* `retry` executions failed
CronJobRow(period, retry) ==
    [active |-> TRUE, cron_expr |-> period, delivery_mode |-> "announce",
     retry_count |-> retry, last_run_at |-> NoTime,
     next_run_at |-> CronNext(period, 0 - 1), last_result |-> "", last_error |-> ""]

Invokes == 1..MaxInvokes

\* values uuid4 can give a request id; the client may name any of them
RequestIds == 1..(MaxInvokes + 1)

NODE_ID == "node-1"

NoFuture == [state |-> "none", value |-> 0]

IdleInvocation == [pc |-> "idle", request_id |-> 0, future |-> NoFuture, result |-> 0]

\* no node has connected yet
NodeInit ==
    /\ nodes = {}
    /\ node_status = "none"
    /\ ws = "none"
    /\ pending = {}
    /\ invocations = [i \in Invokes |-> IdleInvocation]
    /\ inbox = <<>>
    /\ sent = 0
    /\ unknown_warned = {}

\* activations of process_turn that may be under way together
MaxHolders == 2
Holders == 1..MaxHolders

\* no activation of process_turn holds an agent
NoHolder == [pc |-> "idle", agent |-> 0, chat |-> ""]

HolderInit == holders = [u \in Holders |-> NoHolder]


NoRequest == [dispatched |-> FALSE, path |-> "", method |-> "", api_key |-> "", status |-> 0]

\* the middleware is not made yet
AuthInit ==
    auth = [made |-> FALSE, api_keys |-> {}, first_hash |-> <<>>, requests |-> 0,
            last |-> NoRequest]


\* agent_manager.py lines 43-44: no agent is cached
AgentCacheInit ==
    /\ agent_instance = 0
    /\ agent_config = <<>>
    /\ agent_builds = 0
    /\ agent_call = [config |-> <<>>, reset |-> FALSE, outcome |-> "none", agent |-> 0]

\* nothing has been encoded or decoded
NoBlob == [format |-> "empty", version |-> 0, step_number |-> 0, max_steps |-> 0, steps |-> <<>>]
NoAgent == [outcome |-> "none", step_number |-> 0, max_steps |-> 0, steps |-> <<>>]

CodecInit ==
    codec = [op |-> "idle", agent |-> NoAgent, blob |-> NoBlob, result |-> NoAgent]

\* an agent with an empty memory, compress_context not called yet
CompressorInit ==
    compressor = [steps |-> <<>>, made |-> 0, before |-> 0, old |-> <<>>,
                  called |-> FALSE, reported |-> FALSE,
                  tokens_over |-> FALSE, llm |-> "none", memory_enabled |-> FALSE,
                  window |-> <<>>, flushed |-> <<>>]

\* loop tasks the runner makes in one behaviour, and disable() calls in flight
MaxLoopTasks == 3
MaxDisables == 2

LoopTasks == 1..MaxLoopTasks
Disables == 1..MaxDisables

\* heartbeat.py lines 40-48: not enabled, not running, no task
RunnerInit ==
    runner = [enabled |-> FALSE, running |-> FALSE, task |-> 0,
              loop_tasks |-> [k \in LoopTasks |-> "none"],
              awaiting |-> [d \in Disables |-> 0]]

\* no tick has run its turn yet
TickInit ==
    tick = [done |-> FALSE, answer |-> <<>>, response |-> <<>>, callback_set |-> FALSE,
            last_result |-> <<>>, notified |-> <<>>]

\* nothing pushed, nothing drained
DrainInit ==
    drain = [pushed |-> 0, drains |-> 0, last |-> <<>>, just |-> FALSE, upto |-> 0]

\* no SocialBrain yet
SocialInit ==
    social = [started |-> FALSE, allowed_users |-> {}, platform_allowlists |-> <<>>,
              arrived |-> 0, queue |-> <<>>, handling |-> {},
              chats |-> {}, turns |-> {}, denied |-> {}]

NoCall == [target |-> "", command |-> "", raised |-> "none", available |-> {}, node |-> ""]

\* NodeManager.__init__: no node, no call of invoke yet
ManagerInit ==
    manager = [nodes |-> <<>>, order |-> <<>>, invoked |-> 0, calls |-> 0, last |-> NoCall]

NoHostMessage == [type |-> "none", request_id |-> "", command |-> ""]

\* run_once after the handshake: the message loop waits on an open socket
HostInit ==
    host = [stop |-> FALSE, ws |-> "open", looping |-> TRUE, delivered |-> 0,
            inbox |-> <<>>, results |-> <<>>, pongs |-> 0,
            last |-> [message |-> NoHostMessage, outcome |-> "none"]]

\* connections to /ws/node in one behaviour
MaxConnections == 2

Connections == 1..MaxConnections

\* no client has connected to /ws/node
EndpointInit ==
    endpoint = [nodes |-> {},
                conn |-> [c \in Connections |->
                            [pc |-> "none", first |-> "none", replies |-> <<>>,
                             close |-> "none", status |-> "none", handled |-> 0]]]

\* None, as a value of a config key or of a preference
None == "None"

\* no preference saved, process_turn not called
PrefsInit ==
    prefs = [saved |-> [model |-> None, agent |-> None, tools |-> None],
             calls |-> 0,
             call |-> [caller |-> "none", supplied |-> <<>>, config_override |-> <<>>]]

\* no provider is configured, CONFIG.model_options is empty (config.py line
\* 120), create_agent has not been called
NoCreateCall ==
    [called |-> FALSE, model |-> None, agent |-> None, enabled |-> <<>>,
     raised |-> "none", model_id |-> None, built |-> FALSE]

\* provider_config is <<>> while the user has configured no provider, else
\* <<the models the user enabled>>
CreationInit ==
    creation = [provider_config |-> <<>>, model_options |-> <<>>, call |-> NoCreateCall]

NoReindex == [clear_existing |-> FALSE, total_facts |-> 0, indexed |-> 0, errors |-> 0]

\* no daily log file (log = <<>>), an empty vector store; written_since
\* tells that the file was written after the last reindex
MemoryInit ==
    memory = [log |-> <<>>, appended |-> {}, appends |-> 0, edits |-> 0,
              rows |-> <<>>, reindexes |-> 0, last |-> NoReindex, written_since |-> FALSE]

\* HeartbeatRunner(interval_minutes=30), as the server makes it
DEFAULT_INTERVAL == 30

NoSetInterval ==
    [called |-> FALSE, minutes |-> 0, before |-> 0, raised |-> "none", restarted |-> FALSE]

IntervalInit ==
    interval = [interval_minutes |-> DEFAULT_INTERVAL, running |-> FALSE,
                last |-> NoSetInterval]

InitWith(job) ==
    /\ chats = [c \in ChatIds |->
                   [exists |-> c = HTTP_CHAT_ID, messages |-> <<>>, agent_state |-> 0]]
    /\ stream_controls = [c \in ChatIds |-> "absent"]
    /\ turns = [t \in Turns |-> IdleTurn]
    /\ started = 0
    /\ clock = 0
    /\ cron_job = job
    /\ cron_runs = <<>>
    /\ pending_notifications = <<>>
    /\ heartbeat = [last_run_at |-> NoTime, last_result |-> "",
                    last_error |-> "", notified |-> <<>>]
    /\ tasks = {}
    /\ failed_in_a_row = job.retry_count
    /\ NodeInit
    /\ AgentCacheInit
    /\ CodecInit
    /\ AuthInit
    /\ HolderInit
    /\ IntervalInit
    /\ MemoryInit
    /\ CreationInit
    /\ PrefsInit
    /\ EndpointInit
    /\ HostInit
    /\ ManagerInit
    /\ SocialInit
    /\ DrainInit
    /\ TickInit
    /\ RunnerInit
    /\ CompressorInit

Init == InitWith(CronJobRow(2, 0))

InitCron ==
    \E period \in CronPeriods, retry \in {0, max_retries} :
        InitWith(CronJobRow(period, retry))

\* ------------------------------------------------------- turn bookkeeping

\* a slot holding no turn in flight
FreeSlot(t) == turns[t].pc = "idle"

\* the slot a new turn takes: the first free one
NextSlot(t) == FreeSlot(t) /\ \A u \in Turns : u < t => ~FreeSlot(u)

InFlight(t) == ~FreeSlot(t)

IsCron(t) == turns[t].caller \in {"cron_tick", "cron_trigger"}

IsHeartbeat(t) == turns[t].caller \in {"heartbeat_loop", "heartbeat_trigger"}

\* the callers that stop iterating process_turn at the first error event
ReturnsOnError(t) == turns[t].caller # "http"

\* The call processor.process_turn(chat_id=...): the locals of the new
\* activation, up to its first suspension at `await get_or_create_agent`.
NewTurn(caller, chat, log, job_retry, now, run_id) ==
    [IdleTurn EXCEPT !.pc = "agent", !.caller = caller,
                     !.chat = chat, !.job_retry = job_retry, !.now = now,
                     !.run_id = run_id, !.start_log = log]

\* ------------------------------------------------ what the callers do next

\* the turn raised: `except Exception` of _execute_job / _tick / _handle_message
CallerOnRaise(t) ==
    IF IsCron(t)
    THEN /\ cron_runs' = FinishCronRun(cron_runs, turns[t].run_id, "error")
         /\ cron_job' = HandleRetry(cron_job, turns[t].job_retry, turns[t].now)
         /\ failed_in_a_row' = failed_in_a_row + 1
         /\ UNCHANGED <<pending_notifications, heartbeat>>
    ELSE IF IsHeartbeat(t)
    THEN /\ heartbeat' = [heartbeat EXCEPT !.last_error = "exception"]
         /\ UNCHANGED <<cron_job, cron_runs, pending_notifications, failed_in_a_row>>
    ELSE UNCHANGED callerVars

\* the turn ran to its end with response text `response`
\* (_execute_job lines 149-162, _tick lines 168-180)
CallerOnResponse(t, response) ==
    IF IsCron(t)
    THEN /\ cron_job' = UpdateCronJobRunState(cron_job, [last_result |-> response])
         /\ cron_runs' = FinishCronRun(cron_runs, turns[t].run_id, "success")
         /\ pending_notifications' =
               IF cron_job.delivery_mode = "announce" /\ response # ""
               THEN DequeAppend(pending_notifications, response)
               ELSE pending_notifications
         /\ failed_in_a_row' = 0
         /\ UNCHANGED heartbeat
    ELSE IF IsHeartbeat(t)
    THEN /\ heartbeat' =
               IF IsHeartbeatOk(response)
               THEN [heartbeat EXCEPT !.last_error = "", !.last_result = HEARTBEAT_OK]
               ELSE [heartbeat EXCEPT !.last_error = "", !.last_result = response,
                                      !.notified = Append(@, response)]
         /\ UNCHANGED <<cron_job, cron_runs, pending_notifications, failed_in_a_row>>
    ELSE UNCHANGED callerVars

\* the caller read an error event: _run_chat_turn returns "" (scheduler.py
\* 196-200, heartbeat.py 213-215) and its caller goes on with that response
CallerOnErrorEvent(t) ==
    IF IsCron(t)
    THEN /\ cron_job' = UpdateCronJobRunState(cron_job,
                            [last_error |-> "error", last_result |-> ""])
         /\ cron_runs' = FinishCronRun(
                            FinishCronRun(cron_runs, turns[t].run_id, "error"),
                            turns[t].run_id, "success")
         /\ failed_in_a_row' = 0
         /\ UNCHANGED <<pending_notifications, heartbeat>>
    ELSE IF IsHeartbeat(t)
    THEN /\ heartbeat' = [heartbeat EXCEPT !.last_error = "", !.last_result = HEARTBEAT_OK]
         /\ UNCHANGED <<cron_job, cron_runs, pending_notifications, failed_in_a_row>>
    ELSE UNCHANGED callerVars

\* ------------------------------------------- ChatProcessor.process_turn

SetTurn(t, fields) ==
    [turns EXCEPT ![t] =
        [k \in DOMAIN turns[t] |-> IF k \in DOMAIN fields THEN fields[k] ELSE turns[t][k]]]

\* the activation ends (the generator is exhausted, dropped by its caller,
\* or raises) and its locals go with it
EndTurn(t) == [turns EXCEPT ![t] = IdleTurn]

\* chat.agent_state, decoded: the number of runs the stored agent has made
RestoreAgent(c) == GetChat(c).agent_state

\* get_or_create_agent returns; state restore and context injection run;
\* stream_agent_responses starts and the streaming bus registers the chat's
\* controller, or refuses the stream when the chat already has one.
AgentReady(t) ==
    /\ UNCHANGED nonCoreVars
    /\ turns[t].pc = "agent"
    /\ IF StreamActive(turns[t].chat)
       THEN /\ turns' = SetTurn(t, [pc |-> "stream", registered |-> FALSE,
                                    agent_steps |-> RestoreAgent(turns[t].chat)])
            /\ UNCHANGED stream_controls
       ELSE /\ turns' = SetTurn(t, [pc |-> "stream", registered |-> TRUE,
                                    agent_steps |-> RestoreAgent(turns[t].chat) + 1])
            /\ stream_controls' = RegisterStream(turns[t].chat)
    /\ UNCHANGED <<chats, started, clock, tasks>>
    /\ UNCHANGED callerVars

\* get_or_create_agent raises (create_agent: no model configured, unknown
\* agent): the exception leaves process_turn before it yields anything.
AgentBuildFails(t) ==
    /\ UNCHANGED nonCoreVars
    /\ turns[t].pc = "agent"
    /\ turns' = EndTurn(t)
    /\ CallerOnRaise(t)
    /\ UNCHANGED <<chats, stream_controls, started, clock, tasks>>

\* the agent run yields its final_answer frame and the stream ends
StreamFinalAnswer(t, answer) ==
    /\ UNCHANGED nonCoreVars
    /\ turns[t].pc = "stream"
    /\ turns[t].registered
    /\ stream_controls[turns[t].chat] = "active"
    /\ turns' = SetTurn(t, [pc |-> "extract", full_response |-> answer,
                            registered |-> FALSE])
    /\ stream_controls' = UnregisterStream(turns[t].chat)
    /\ UNCHANGED <<chats, started, clock, tasks>>
    /\ UNCHANGED callerVars

\* the stream yields an error frame (an agent error, or the bus refusing a
\* second stream on the chat) and ends.  POST /chat reads the stream to its
\* end; the other callers return at the error event and drop the generator.
StreamError(t) ==
    /\ UNCHANGED nonCoreVars
    /\ turns[t].pc = "stream"
    /\ stream_controls' = IF turns[t].registered
                          THEN UnregisterStream(turns[t].chat)
                          ELSE stream_controls
    /\ IF ReturnsOnError(t)
       THEN /\ turns' = EndTurn(t)
            /\ CallerOnErrorEvent(t)
       ELSE /\ turns' = SetTurn(t, [pc |-> "extract", error |-> TRUE,
                                    registered |-> FALSE])
            /\ UNCHANGED callerVars
    /\ UNCHANGED <<chats, started, clock, tasks>>

\* POST /chat/stop: stop_stream(chat_id, reason) on a chat with a controller
StopChat(c) ==
    /\ UNCHANGED nonCoreVars
    /\ stream_controls[c] = "active"
    /\ stream_controls' = [stream_controls EXCEPT ![c] = "cancelled"]
    /\ UNCHANGED <<chats, turns, started, clock, tasks>>
    /\ UNCHANGED callerVars

\* the agent loop sees the cancel signal: the stream ends with no final_answer
StreamCancelled(t) ==
    /\ UNCHANGED nonCoreVars
    /\ turns[t].pc = "stream"
    /\ turns[t].registered
    /\ stream_controls[turns[t].chat] = "cancelled"
    /\ turns' = SetTurn(t, [pc |-> "extract", cancelled |-> TRUE,
                            registered |-> FALSE])
    /\ stream_controls' = UnregisterStream(turns[t].chat)
    /\ UNCHANGED <<chats, started, clock, tasks>>
    /\ UNCHANGED callerVars

\* 7.A _extract_memories: every failure is caught and logged
ExtractMemories(t) ==
    /\ UNCHANGED nonCoreVars
    /\ turns[t].pc = "extract"
    /\ turns' = SetTurn(t, [pc |-> "compress"])
    /\ UNCHANGED <<chats, stream_controls, started, clock, tasks>>
    /\ UNCHANGED callerVars

\* 7.B ContextCompressor() raises while it is set up (line 196, outside any
\* try): the exception leaves process_turn.
CompressorSetupFails(t) ==
    /\ UNCHANGED nonCoreVars
    /\ turns[t].pc = "compress"
    /\ turns' = EndTurn(t)
    /\ CallerOnRaise(t)
    /\ UNCHANGED <<chats, stream_controls, started, clock, tasks>>

\* 7.B compress_context: a failure of the compression itself is caught
CompressContext(t) ==
    /\ UNCHANGED nonCoreVars
    /\ turns[t].pc = "compress"
    /\ turns' = SetTurn(t, [pc |-> "persist"])
    /\ UNCHANGED <<chats, stream_controls, started, clock, tasks>>
    /\ UNCHANGED callerVars

UserMessage(t) == [role |-> "user", content |-> "prompt"]

AssistantMessage(t) == [role |-> "assistant", content |-> turns[t].full_response]

\* serialize_agent(agent)
SerializeAgent(t) == turns[t].agent_steps

\* 7.C _persist_state, then the generator ends and the caller goes on
PersistState(t) ==
    /\ UNCHANGED nonCoreVars
    /\ turns[t].pc = "persist"
    /\ LET current_chat == GetChat(turns[t].chat)
           messages == IF current_chat.exists THEN current_chat.messages ELSE <<>>
       IN  chats' = UpdateChat(turns[t].chat, SerializeAgent(t),
                               messages \o <<UserMessage(t), AssistantMessage(t)>>)
    /\ turns' = EndTurn(t)
    /\ CallerOnResponse(t, turns[t].full_response)
    /\ UNCHANGED <<stream_controls, started, clock, tasks>>

\* ---------------------------------------------------------------- callers

\* POST /chat (chat_routes.chat): the route hands process_turn to the
\* StreamingResponse, whatever the chat is doing.
ChatRoute(t) ==
    /\ UNCHANGED nonCoreVars
    /\ NextSlot(t)
    /\ started < MaxStarts
    /\ \E chat_id \in HttpChatIds :
          turns' = [turns EXCEPT ![t] =
                       NewTurn("http", chat_id, GetChat(chat_id).messages, 0, 0, 0)]
    /\ started' = started + 1
    /\ UNCHANGED <<chats, stream_controls, clock, tasks>>
    /\ UNCHANGED callerVars

\* SocialBrain._handle_message for a message of an authorised sender
HandleMessage(t) ==
    /\ UNCHANGED nonCoreVars
    /\ NextSlot(t)
    /\ started < MaxStarts
    /\ chats' = EnsureChat(SOCIAL_CHAT_ID)
    /\ turns' = [turns EXCEPT ![t] =
                    NewTurn("social", SOCIAL_CHAT_ID, chats'[SOCIAL_CHAT_ID].messages, 0, 0, 0)]
    /\ started' = started + 1
    /\ UNCHANGED <<stream_controls, clock, tasks>>
    /\ UNCHANGED callerVars

\* datetime.now() moves on
AdvanceClock ==
    /\ UNCHANGED nonCoreVars
    /\ clock < MaxClock
    /\ clock' = clock + 1
    /\ UNCHANGED <<chats, stream_controls, turns, started, tasks>>
    /\ UNCHANGED callerVars

\* SchedulerBrain._tick on the job: give it a next_run_at if it has none,
\* else make the task that executes it once it is due
SchedulerTick ==
    /\ UNCHANGED nonCoreVars
    /\ cron_job.active
    /\ IF cron_job.next_run_at = NoTime
       THEN /\ cron_job' = UpdateCronJobRunState(cron_job,
                              [next_run_at |-> CronNext(cron_job.cron_expr, clock)])
            /\ UNCHANGED tasks
       ELSE /\ cron_job.next_run_at <= clock
            /\ tasks' = tasks \cup {"cron_tick"}
            /\ UNCHANGED cron_job
    /\ UNCHANGED <<chats, stream_controls, turns, started, clock>>
    /\ UNCHANGED <<cron_runs, pending_notifications, heartbeat, failed_in_a_row>>

\* SchedulerBrain.trigger_job_now
TriggerJobNow ==
    /\ UNCHANGED nonCoreVars
    /\ tasks' = tasks \cup {"cron_trigger"}
    /\ UNCHANGED <<chats, stream_controls, turns, started, clock>>
    /\ UNCHANGED callerVars

\* an execution that returns early also when the job is not due yet
ExecutionSkippedUnlessDue(task) ==
    ~cron_job.active \/ StreamActive(CRON_CHAT_ID) \/ cron_job.next_run_at > clock

\* the early returns of _execute_job, the same for a tick's task and for a
\* trigger's: the job is inactive, or the cron chat has a stream controller
ExecutionSkipped(task) == ~cron_job.active \/ StreamActive(CRON_CHAT_ID)


\* SchedulerBrain._execute_job returns early: the job is inactive or the
\* cron chat has a stream controller
ExecuteJobSkips(task) ==
    /\ UNCHANGED nonCoreVars
    /\ task \in tasks \cap {"cron_tick", "cron_trigger"}
    /\ ExecutionSkipped(task)
    /\ tasks' = tasks \ {task}
    /\ UNCHANGED <<chats, stream_controls, turns, started, clock>>
    /\ UNCHANGED callerVars

\* SchedulerBrain._execute_job up to its first suspension inside the turn
ExecuteJob(t, task) ==
    /\ UNCHANGED nonCoreVars
    /\ task \in tasks \cap {"cron_tick", "cron_trigger"}
    /\ NextSlot(t)
    /\ started < MaxStarts
    /\ ~ExecutionSkipped(task)
    /\ tasks' = tasks \ {task}
    /\ cron_job' = UpdateCronJobRunState(cron_job,
                      [last_run_at |-> clock,
                       next_run_at |-> CronNext(cron_job.cron_expr, clock),
                       retry_count |-> 0])
    /\ chats' = EnsureChat(CRON_CHAT_ID)
    /\ cron_runs' = Append(cron_runs, [status |-> "running", closes |-> 0])
    /\ turns' = [turns EXCEPT ![t] =
                    NewTurn(task, CRON_CHAT_ID, chats'[CRON_CHAT_ID].messages,
                            cron_job.retry_count, clock, Len(cron_runs) + 1)]
    /\ started' = started + 1
    /\ UNCHANGED <<stream_controls, clock, pending_notifications, heartbeat,
                   failed_in_a_row>>

\* HeartbeatRunner._tick up to its first suspension inside the turn, for a
\* HEARTBEAT.md that has content
HeartbeatTick(t, caller) ==
    /\ UNCHANGED nonCoreVars
    /\ NextSlot(t)
    /\ started < MaxStarts
    /\ ~StreamActive(HEARTBEAT_CHAT_ID)
    /\ chats' = EnsureChat(HEARTBEAT_CHAT_ID)
    /\ heartbeat' = [heartbeat EXCEPT !.last_run_at = clock]
    /\ turns' = [turns EXCEPT ![t] =
                    NewTurn(caller, HEARTBEAT_CHAT_ID,
                            chats'[HEARTBEAT_CHAT_ID].messages, 0, 0, 0)]
    /\ started' = started + 1
    /\ UNCHANGED <<stream_controls, clock, cron_job, cron_runs, pending_notifications,
                   failed_in_a_row>>

\* HeartbeatRunner._run_loop calls _tick, once its last call has returned
HeartbeatLoopTick(t) ==
    /\ \A u \in Turns : turns[u].caller # "heartbeat_loop"
    /\ HeartbeatTick(t, "heartbeat_loop")
    /\ UNCHANGED tasks

\* HeartbeatRunner.trigger_now
HeartbeatTriggerNow ==
    /\ UNCHANGED nonCoreVars
    /\ tasks' = tasks \cup {"heartbeat_trigger"}
    /\ UNCHANGED <<chats, stream_controls, turns, started, clock>>
    /\ UNCHANGED callerVars

\* the task made by trigger_now runs _tick
HeartbeatTriggeredTick(t) ==
    /\ "heartbeat_trigger" \in tasks
    /\ HeartbeatTick(t, "heartbeat_trigger")
    /\ tasks' = tasks \ {"heartbeat_trigger"}

\* ... and _tick returns early: the heartbeat chat has a stream controller
HeartbeatTriggeredTickSkips ==
    /\ UNCHANGED nonCoreVars
    /\ "heartbeat_trigger" \in tasks
    /\ StreamActive(HEARTBEAT_CHAT_ID)
    /\ tasks' = tasks \ {"heartbeat_trigger"}
    /\ UNCHANGED <<chats, stream_controls, turns, started, clock>>
    /\ UNCHANGED callerVars

\* ------------------------------------------------------ WebSocket nodes

\* /ws/node: the client's first message is a valid connect message; the
\* endpoint makes the WebSocketNode and registers it
NodeConnects ==
    /\ ws = "none"
    /\ ws' = "open"
    /\ node_status' = "connected"
    /\ nodes' = nodes \cup {NODE_ID}
    /\ UNCHANGED <<pending, invocations, inbox, sent, unknown_warned>>
    /\ UNCHANGED nonNodeVars

\* /ws/node: the first message is no valid connect message; the endpoint
\* answers with an error and closes the socket
NodeHandshakeRejected ==
    /\ ws = "none"
    /\ ws' = "closed"
    /\ UNCHANGED <<nodes, node_status, pending, invocations, inbox, sent, unknown_warned>>
    /\ UNCHANGED nonNodeVars

\* the invocation a new call of invoke is: the first unused one
NextInvocation(i) ==
    /\ invocations[i].pc = "idle"
    /\ \A j \in Invokes : j < i => invocations[j].pc # "idle"

\* uuid.uuid4(): an id no call has been given before
NewRequestId(r) ==
    /\ r \in RequestIds
    /\ \A j \in Invokes : invocations[j].request_id # r
    /\ \A q \in RequestIds : q < r => \E j \in Invokes : invocations[j].request_id = q

\* NodeManager.invoke refuses: the node is not registered or not connected
ManagerInvokeRefused(i) ==
    /\ NextInvocation(i)
    /\ node_status # "none"
    /\ NODE_ID \notin nodes \/ node_status # "connected"
    /\ invocations' = [invocations EXCEPT ![i].pc = "value_error"]
    /\ UNCHANGED <<nodes, node_status, ws, pending, inbox, sent, unknown_warned>>
    /\ UNCHANGED nonNodeVars

\* WebSocketNode.invoke up to `await asyncio.wait_for(future, ...)`: the
\* future is filed under a new request id and the invoke message is sent
Invoke(i) ==
    /\ NextInvocation(i)
    /\ NODE_ID \in nodes
    /\ node_status = "connected"
    /\ ws = "open"
    /\ \E r \in RequestIds :
          /\ NewRequestId(r)
          /\ pending' = pending \cup {r}
          /\ invocations' = [invocations EXCEPT ![i] =
                [pc |-> "waiting", request_id |-> r,
                 future |-> [state |-> "pending", value |-> 0], result |-> 0]]
    /\ UNCHANGED <<nodes, node_status, ws, inbox, sent, unknown_warned>>
    /\ UNCHANGED nonNodeVars

\* WebSocketNode.invoke on a socket whose peer is gone: send_json raises
\* WebSocketDisconnect, invoke raises ConnectionError and its finally
\* removes the request id
InvokeOnLostSocket(i) ==
    /\ NextInvocation(i)
    /\ NODE_ID \in nodes
    /\ node_status = "connected"
    /\ ws = "lost"
    /\ \E r \in RequestIds :
          /\ NewRequestId(r)
          /\ invocations' = [invocations EXCEPT ![i] =
                [pc |-> "connection_error", request_id |-> r,
                 future |-> [state |-> "pending", value |-> 0], result |-> 0]]
    /\ node_status' = "disconnected"
    /\ UNCHANGED <<nodes, ws, pending, inbox, sent, unknown_warned>>
    /\ UNCHANGED nonNodeVars

\* the client sends a message: a result naming any request id, or a pong,
\* which has no request id
ClientSends(type, request_id) ==
    /\ ws = "open"
    /\ (type = "pong") = (request_id = 0)
    /\ sent < MaxMessages
    /\ sent' = sent + 1
    /\ inbox' = Append(inbox, [type |-> type, request_id |-> request_id,
                               result |-> sent + 1])
    /\ UNCHANGED <<nodes, node_status, ws, pending, invocations, unknown_warned>>
    /\ UNCHANGED nonNodeVars

\* the connection to the client is lost
ClientDrops ==
    /\ ws = "open"
    /\ ws' = "lost"
    /\ UNCHANGED <<nodes, node_status, pending, invocations, inbox, sent, unknown_warned>>
    /\ UNCHANGED nonNodeVars

\* handle_message, a result message: the calls whose future it resolves
FutureForAnyPending(request_id) ==
    {i \in Invokes : invocations[i].request_id \in pending}

FutureFor(request_id) ==
    {i \in Invokes : request_id \in pending /\ invocations[i].request_id = request_id}

\* the endpoint's message loop reads a message and WebSocketNode.handle_message
\* handles it
NodeHandleMessage ==
    /\ ws \in {"open", "lost"}
    /\ NODE_ID \in nodes
    /\ inbox # <<>>
    /\ inbox' = Tail(inbox)
    /\ LET msg == Head(inbox)
       IN  IF msg.type = "result"
           THEN /\ invocations' =
                      [i \in Invokes |->
                          IF /\ i \in FutureFor(msg.request_id)
                             /\ invocations[i].future.state = "pending"
                          THEN [invocations[i] EXCEPT
                                   !.future = [state |-> "result", value |-> msg.result]]
                          ELSE invocations[i]]
                /\ unknown_warned' = IF msg.request_id \in pending
                                     THEN unknown_warned
                                     ELSE unknown_warned \cup {msg.request_id}
           ELSE UNCHANGED <<invocations, unknown_warned>>
    /\ UNCHANGED <<nodes, node_status, ws, pending, sent>>
    /\ UNCHANGED nonNodeVars

\* the request id stays filed when invoke ends
KeepPending(request_id) == pending

\* invoke's finally: self._pending.pop(request_id, None)
PopPending(request_id) == pending \ {request_id}

\* invoke resumes with the future's result and returns it
InvokeReturns(i) ==
    /\ invocations[i].pc = "waiting"
    /\ invocations[i].future.state = "result"
    /\ invocations' = [invocations EXCEPT ![i].pc = "returned",
                                          ![i].result = invocations[i].future.value]
    /\ pending' = PopPending(invocations[i].request_id)
    /\ UNCHANGED <<nodes, node_status, ws, inbox, sent, unknown_warned>>
    /\ UNCHANGED nonNodeVars

\* DEFAULT_INVOKE_TIMEOUT passes with the future not done: wait_for cancels
\* it and invoke raises TimeoutError
InvokeTimesOut(i) ==
    /\ invocations[i].pc = "waiting"
    /\ invocations[i].future.state = "pending"
    /\ invocations' = [invocations EXCEPT ![i].pc = "timeout_error",
                                          ![i].future.state = "cancelled"]
    /\ pending' = PopPending(invocations[i].request_id)
    /\ UNCHANGED <<nodes, node_status, ws, inbox, sent, unknown_warned>>
    /\ UNCHANGED nonNodeVars

\* invoke resumes with the exception close() put in the future
InvokeConnectionError(i) ==
    /\ invocations[i].pc = "waiting"
    /\ invocations[i].future.state = "exception"
    /\ invocations' = [invocations EXCEPT ![i].pc = "connection_error"]
    /\ pending' = PopPending(invocations[i].request_id)
    /\ UNCHANGED <<nodes, node_status, ws, inbox, sent, unknown_warned>>
    /\ UNCHANGED nonNodeVars

\* the endpoint's receive_json raises WebSocketDisconnect and its finally
\* unregisters the node
EndpointDisconnects ==
    /\ ws = "lost"
    /\ inbox = <<>>
    /\ NODE_ID \in nodes
    /\ nodes' = nodes \ {NODE_ID}
    /\ node_status' = "disconnected"
    /\ UNCHANGED <<ws, pending, invocations, inbox, sent, unknown_warned>>
    /\ UNCHANGED nonNodeVars

\* server shutdown: WebSocketNode.close() on each registered node, then
\* unregister_node
NodeClose ==
    /\ NODE_ID \in nodes
    /\ node_status' = "disconnected"
    /\ invocations' =
          [i \in Invokes |->
              IF /\ invocations[i].request_id \in pending
                 /\ invocations[i].future.state = "pending"
              THEN [invocations[i] EXCEPT !.future.state = "exception"]
              ELSE invocations[i]]
    /\ pending' = {}
    /\ ws' = "closed"
    /\ nodes' = nodes \ {NODE_ID}
    /\ UNCHANGED <<inbox, sent, unknown_warned>>
    /\ UNCHANGED nonNodeVars

\* ------------------------------------------------- agent session cache

\* agents built in one behaviour
MaxAgentBuilds == 2

\* the keys get_or_create_agent leaves out when it compares configs
TRANSIENT_KEYS == {"_runtime", "_chat_id", "_user_id"}

ConfigKeys == {"_chat_id", "_runtime", "memory_enabled", "model"}

ConfigValues(k) ==
    IF k = "_chat_id" THEN {"c1", "c2"}
    ELSE IF k = "_runtime" THEN {"loop1", "loop2"}
    ELSE IF k = "memory_enabled" THEN {"on", "off"}
    ELSE {"m1", "m2"}

\* the configs process_turn makes: _chat_id and memory_enabled always, the
\* keys of config_override when given
Configs ==
    UNION {{cfg \in [D -> UNION {ConfigValues(k) : k \in D}] :
                \A k \in D : cfg[k] \in ConfigValues(k)} :
           D \in {E \in SUBSET ConfigKeys : {"_chat_id", "memory_enabled"} \subseteq E}}

\* every key is compared
WholeConfig(cfg) == cfg

\* _stable_config(cfg)
StableConfig(cfg) == [k \in DOMAIN cfg \ TRANSIENT_KEYS |-> cfg[k]]

\* config_changed, with None for the stable config when agent_config is falsy
ConfigChanged(config) ==
    IF agent_config # <<>> /\ DOMAIN agent_config[1] # {}
    THEN StableConfig(config) # StableConfig(agent_config[1])
    ELSE TRUE

\* get_or_create_agent(config, reset) returns, under agent_lock: the cached
\* agent, or the agent create_agent builds, which it caches with config
GetOrCreateAgentCall(config, reset) ==
    /\ IF agent_instance = 0 \/ ConfigChanged(config) \/ reset
       THEN /\ agent_builds < MaxAgentBuilds
            /\ agent_builds' = agent_builds + 1
            /\ agent_instance' = agent_builds + 1
            /\ agent_config' = <<config>>
            /\ agent_call' = [config |-> <<config>>, reset |-> reset,
                              outcome |-> "built", agent |-> agent_builds + 1]
       ELSE /\ agent_call' = [config |-> <<config>>, reset |-> reset,
                              outcome |-> "cached", agent |-> agent_instance]
            /\ UNCHANGED <<agent_instance, agent_config, agent_builds>>

\* a caller that only takes the agent
GetOrCreateAgent(config, reset) ==
    /\ GetOrCreateAgentCall(config, reset)
    /\ UNCHANGED nonAgentVars

\* the config is cached before the agent is built
ConfigAssignedBeforeBuild(config) == <<config>>

\* agent_config when create_agent raises: `agent_config = config` is the
\* statement after `agent_instance = create_agent(...)` and is not reached
ConfigWhenBuildRaises(config) == agent_config


\* get_or_create_agent raises: create_agent finds no enabled model or an
\* unknown agent type, before anything is assigned
GetOrCreateAgentRaises(config, reset) ==
    /\ agent_instance = 0 \/ ConfigChanged(config) \/ reset
    /\ agent_call' = [config |-> <<config>>, reset |-> reset,
                      outcome |-> "raised", agent |-> 0]
    /\ agent_config' = ConfigWhenBuildRaises(config)
    /\ UNCHANGED <<agent_instance, agent_builds>>
    /\ UNCHANGED nonAgentVars

\* ------------------------------------- process_turn and the agent it holds

\* chat.agent_state of the chat of the turn: nothing stored, a state that
\* deserialize_agent restores, or one it gives None for
StoredStates == {"none", "decodes", "undecodable"}

\* the agent deserialize_agent builds for activation u: create_agent makes a
\* new object at every call
RestoredAgent(u) == 0 - u

\* process_turn lines 67-93: the config, `agent = await get_or_create_agent
\* (config)` (agent_lock is held inside the call only), then the restored
\* agent in its place when the chat has a state that decodes
ProcessTurnGetsAgent(u, config, stored) ==
    /\ holders[u].pc = "idle"
    /\ GetOrCreateAgentCall(config, FALSE)
    /\ holders' = [holders EXCEPT ![u] =
          [pc |-> "stream",
           agent |-> IF stored = "decodes" THEN RestoredAgent(u) ELSE agent_instance',
           chat |-> config["_chat_id"]]]
    /\ UNCHANGED nonAgentVarsOfTurn

\* inject_chat_context(agent, ...) and stream_agent_responses(agent, ...): the
\* agent runs, suspended at every chunk, until the stream ends
ProcessTurnStreams(u) ==
    /\ holders[u].pc = "stream"
    /\ holders' = [holders EXCEPT ![u].pc = "post"]
    /\ UNCHANGED nonHolderVars

\* _extract_memories(agent=agent), compress_context(agent) and
\* _persist_state(agent=agent), each awaited; then the activation is over
ProcessTurnEnds(u) ==
    /\ holders[u].pc = "post"
    /\ holders' = [holders EXCEPT ![u] = NoHolder]
    /\ UNCHANGED nonHolderVars


\* ------------------------------------------------- API key authentication

\* requests dispatched in one behaviour
MaxAuthRequests == 2

\* SUZENT_API_KEYS: no key, one key, several keys
ConfiguredKeys == {{}, {"key1"}, {"key1", "key2", "key3"}}

\* what _extract_api_key gives: a key of the request, None without one
PresentedKeys == {"key1", "key2", "key3", "key9", None}

RequestPaths == {"/health", "/chat"}
RequestMethods == {"GET", "OPTIONS"}
PublicPaths == {"/health", "/ready", "/metrics"}

\* hashlib.sha256(key.encode()).hexdigest(): equal for equal keys only
Sha256(key) == <<"sha256", key>>

\* _verify_api_key: the hash of the key is compared with
\* next(iter(self.api_key_hashes)), one hash of the set
VerifyApiKey(api_keys, first_hash, api_key) ==
    IF api_keys = {} THEN TRUE
    ELSE Sha256(api_key) = first_hash[1]

\* APIKeyAuthMiddleware(app, api_keys): first is the key whose hash the
\* iteration of the set of hashes yields first, which the order of the set
\* (the string hashing of the process) decides
MiddlewareMade(api_keys, first) ==
    /\ ~auth.made
    /\ api_keys = {} \/ first \in api_keys
    /\ api_keys = {} => first = None
    /\ auth' = [auth EXCEPT !.made = TRUE, !.api_keys = api_keys,
                            !.first_hash = IF api_keys = {} THEN <<>> ELSE <<Sha256(first)>>]
    /\ UNCHANGED nonAuthVars

\* dispatch(request, call_next): 200 stands for the answer of call_next
Dispatch(path, method, api_key) ==
    /\ auth.made
    /\ auth.requests < MaxAuthRequests
    /\ auth' = [auth EXCEPT
          !.requests = @ + 1,
          !.last = [dispatched |-> TRUE, path |-> path, method |-> method,
                    api_key |-> api_key,
                    status |-> IF path \in PublicPaths THEN 200
                               ELSE IF method = "OPTIONS" THEN 200
                               ELSE IF api_key = None THEN 401
                               ELSE IF ~VerifyApiKey(auth.api_keys, auth.first_hash, api_key)
                               THEN 403
                               ELSE 200]]
    /\ UNCHANGED nonAuthVars


\* ------------------------------------------------------------------- spec

\* the steps of a turn once its caller has started it
\* ------------------------------------------------- agent state codec

\* steps in the memory of an agent
MaxSteps == 2

STATE_FORMAT_VERSION == 2
\* characters of observations, of an output and of a repr that are kept
OBSERVATIONS_LIMIT == 4000
OUTPUT_LIMIT == 2000
REPR_LIMIT == 500

\* str(x)[:limit], a text being its length
Truncate(text, limit) == IF text > limit THEN limit ELSE text

KnownStepTypes == {"action", "planning", "task", "final_answer"}

\* the texts a step of a type carries: observations of an ActionStep, the
\* plan, the task, the output of a FinalAnswerStep; "other" is a step of a
\* class _serialize_steps does not know (a SystemPromptStep)
StepTexts(type) ==
    IF type = "action" THEN {1, OBSERVATIONS_LIMIT, OBSERVATIONS_LIMIT + 1}
    ELSE IF type = "final_answer" THEN {1, OUTPUT_LIMIT + 1}
    ELSE {1}

MemorySteps ==
    UNION {{[type |-> type, step_number |-> IF type = "action" THEN 1 ELSE 0, text |-> text] :
               text \in StepTexts(type)} : type \in KnownStepTypes \cup {"other"}}

SeqsUpTo(S, n) == UNION {[1..k -> S] : k \in 0..n}

\* the agents serialize_agent is given
AgentStates ==
    [outcome : {"agent"}, step_number : 1..MaxSteps, max_steps : {10},
     steps : SeqsUpTo(MemorySteps, MaxSteps)]

SerializeStep(step) ==
    IF step.type = "action"
    THEN [step EXCEPT !.text = Truncate(step.text, OBSERVATIONS_LIMIT)]
    ELSE IF step.type \in {"planning", "task"} THEN step
    ELSE IF step.type = "final_answer"
    THEN [step EXCEPT !.text = Truncate(step.text, OUTPUT_LIMIT)]
    ELSE [type |-> "unknown", step_number |-> 0, text |-> Truncate(step.text, REPR_LIMIT)]

SerializeSteps(steps) == [i \in 1..Len(steps) |-> SerializeStep(steps[i])]

\* "unknown" records are skipped
DeserializeSteps(step_dicts) == SelectSeq(step_dicts, LAMBDA d : d.type \in KnownStepTypes)

\* serialize_agent: the JSON document, the pickle of the memory when
\* json.dumps raises, None when pickle.dumps raises too
SerializeAgentState(agent, dumps) ==
    IF dumps = "json"
    THEN [format |-> "json", version |-> STATE_FORMAT_VERSION,
          step_number |-> agent.step_number, max_steps |-> agent.max_steps,
          steps |-> SerializeSteps(agent.steps)]
    ELSE IF dumps = "pickle"
    THEN [format |-> "pickle", version |-> 0,
          step_number |-> agent.step_number, max_steps |-> agent.max_steps,
          steps |-> agent.steps]
    ELSE NoBlob

\* _restore_from_json and _restore_from_pickle: None when create_agent_fn raises
RestoreFromJson(state, create_ok) ==
    IF create_ok
    THEN [outcome |-> "agent", step_number |-> state.step_number,
          max_steps |-> state.max_steps, steps |-> DeserializeSteps(state.steps)]
    ELSE NoAgent

RestoreFromPickle(state, create_ok) ==
    IF create_ok
    THEN [outcome |-> "agent", step_number |-> state.step_number,
          max_steps |-> state.max_steps, steps |-> state.steps]
    ELSE NoAgent

\* what pickle.loads does with bytes that are not a pickle of a dict: an
\* unknown opcode is an UnpicklingError, a stream that ends inside an opcode
\* or before STOP is an EOFError, which the except clause does not name
PickleLoadsRaisesCaught(blob) == blob.format \in {"json", "invalid_pickle"}
PickleLoadsRaisesUncaught(blob) == blob.format = "truncated_pickle"

Raised == [NoAgent EXCEPT !.outcome = "raised"]

DeserializeAgent(blob, create_ok) ==
    IF blob.format = "empty" THEN NoAgent
    ELSE IF blob.format = "json" /\ blob.version = STATE_FORMAT_VERSION
    THEN RestoreFromJson(blob, create_ok)
    ELSE IF PickleLoadsRaisesCaught(blob) THEN NoAgent
    ELSE IF PickleLoadsRaisesUncaught(blob) THEN Raised
    ELSE IF blob.format = "pickle_not_dict" THEN NoAgent
    ELSE RestoreFromPickle(blob, create_ok)

\* bytes in chats.agent_state that serialize_agent did not write: a JSON
\* document of another version, bytes that are no pickle, a pickle cut short,
\* a pickle of something that is not a dict
ForeignBlobs ==
    {[NoBlob EXCEPT !.format = f] :
        f \in {"empty", "invalid_pickle", "truncated_pickle", "pickle_not_dict"}}
    \cup {[NoBlob EXCEPT !.format = "json", !.version = 1]}

\* an agent is serialized and the bytes are deserialized (one use of the
\* codec in a behaviour: the functions keep no state)
CodecRoundTrip(agent, dumps, create_ok) ==
    /\ codec.op = "idle"
    /\ codec' = [op |-> "round_trip", agent |-> agent,
                 blob |-> SerializeAgentState(agent, dumps),
                 result |-> DeserializeAgent(SerializeAgentState(agent, dumps), create_ok)]
    /\ UNCHANGED nonCodecVars

\* stored bytes are deserialized
CodecDecode(blob, create_ok) ==
    /\ codec.op = "idle"
    /\ codec' = [op |-> "decode", agent |-> NoAgent, blob |-> blob,
                 result |-> DeserializeAgent(blob, create_ok)]
    /\ UNCHANGED nonCodecVars

\* ----------------------------------------------- context compression

\* steps the agent run adds to its memory in one behaviour
MaxMemorySteps == 22

\* CONFIG.max_history_steps
max_history_steps == 20

Max(a, b) == IF a > b THEN a ELSE b

\* all of the history is kept as recent
keep_whole_history == max_history_steps


\* Keep last N steps (at least 5, or 25% of max)
keep_recent_count == Max(5, (max_history_steps * 25) \div 100)

\* the slice begins one step late
SliceFromNext(steps, a, b) == SubSeq(steps, a + 2, b)


\* steps[a:b] of Python, a and b counted from 0
Slice(steps, a, b) == SubSeq(steps, a + 1, b)

\* _should_compress: the step count is over the limit, or the token counts of
\* the monitor are over CONFIG.max_context_tokens
ShouldCompress(steps, tokens_over) == Len(steps) > max_history_steps \/ tokens_over

\* the steps of agent.memory.steps: the TaskStep, an ActionStep of the run,
\* and the synthetic ActionStep of a compression, whose action_output holds
\* the ARCHIVED CONTEXT SUMMARY marker; text is a length as in the codec
TaskStepOf == [type |-> "task", step_number |-> 0, text |-> 1, archived |-> FALSE]
ActionStepOf(n) == [type |-> "action", step_number |-> n, text |-> 1, archived |-> FALSE]
SummaryStep(n) == [type |-> "action", step_number |-> n, text |-> 1, archived |-> TRUE]

\* start_index = 1  # After initial TaskStep
StartIndex(steps) == 1

\* _perform_compression: the new memory, with what it returns and the
\* steps_to_compress it came to; llm is what llm_client.complete does
\* ("summary", "empty", "raises")
PerformCompression(steps, llm) ==
    LET start_index == StartIndex(steps)
        end_index == Len(steps) - keep_recent_count
    IN  IF Len(steps) <= keep_recent_count + 1
        THEN [steps |-> steps, returned |-> FALSE, window |-> <<>>]
        ELSE IF start_index >= end_index
        THEN [steps |-> steps, returned |-> FALSE, window |-> <<>>]
        ELSE IF llm # "summary"
        THEN [steps |-> steps, returned |-> FALSE,
              window |-> Slice(steps, start_index, end_index)]
        ELSE [steps |-> <<steps[1], SummaryStep(Len(steps))>>
                            \o Slice(steps, end_index, Len(steps)),
              returned |-> TRUE,
              window |-> Slice(steps, start_index, end_index)]

\* chat_id and user_id of the compressor of process_turn, which makes it
\* with ContextCompressor() (chat_processor.py line 196)
CompressorChatId == None

\* _pre_compaction_flush(steps_to_compress): the steps the conversation turn
\* handed to the memory manager is made of, <<>> when nothing is handed over
PreCompactionFlush(steps_to_compress, memory_enabled, chat_id) ==
    IF ~memory_enabled THEN <<>>
    ELSE IF chat_id = None THEN <<>>
    ELSE steps_to_compress

\* the agent run appends a step to its memory: the task first, then action
\* steps numbered upwards
AgentAppendsStep ==
    /\ compressor.made < MaxMemorySteps
    /\ compressor' = [compressor EXCEPT
           !.steps = Append(@, IF Len(@) = 0 THEN TaskStepOf
                               ELSE ActionStepOf(compressor.made)),
           !.made = @ + 1,
           !.called = FALSE, !.reported = FALSE, !.before = Len(compressor.steps),
           !.tokens_over = FALSE, !.llm = "none", !.old = <<>>,
           !.memory_enabled = FALSE, !.window = <<>>, !.flushed = <<>>]
    /\ UNCHANGED nonCompressorVars

\* compress_context(agent), CONFIG.memory_enabled being memory_enabled
CompressContextCall(tokens_over, llm, memory_enabled) ==
    /\ LET steps == compressor.steps
           done == IF steps = <<>> \/ ~ShouldCompress(steps, tokens_over)
                   THEN [steps |-> steps, returned |-> FALSE, window |-> <<>>]
                   ELSE PerformCompression(steps, llm)
       IN  compressor' = [steps |-> done.steps, made |-> compressor.made,
                          before |-> Len(steps), old |-> steps,
                          called |-> TRUE, reported |-> done.returned,
                          tokens_over |-> tokens_over, llm |-> llm,
                          memory_enabled |-> memory_enabled,
                          window |-> done.window,
                          flushed |-> PreCompactionFlush(done.window, memory_enabled,
                                                         CompressorChatId)]
    /\ UNCHANGED nonCompressorVars

\* -------------------------------------------- heartbeat loop lifecycle

\* a loop task is "none" (not made), "running", "cancelling" (cancel() was
\* called and the task has not run since) or "done"
Made(k) == runner.loop_tasks[k] # "none"

\* enable(): nothing when _running, or when HEARTBEAT.md is missing
RunnerEnable(md_exists) ==
    /\ \E k \in LoopTasks :
          /\ ~Made(k)
          /\ \A j \in LoopTasks : j < k => Made(j)
          /\ IF runner.running \/ ~md_exists
             THEN UNCHANGED runner
             ELSE runner' = [runner EXCEPT !.enabled = TRUE, !.running = TRUE, !.task = k,
                                           !.loop_tasks[k] = "running"]
    /\ UNCHANGED nonRunnerVars

\* task.cancel(): a task that is done stays done
Cancel(loop_tasks, k) ==
    IF loop_tasks[k] = "running" THEN [loop_tasks EXCEPT ![k] = "cancelling"] ELSE loop_tasks

\* disable() up to "await self._task": awaiting a task that is done does not
\* suspend, and the call goes on to clear _task
RunnerDisable(d) ==
    /\ runner.awaiting[d] = 0
    /\ LET k == runner.task
       IN  IF k = 0
           THEN runner' = [runner EXCEPT !.enabled = FALSE, !.running = FALSE]
           ELSE IF runner.loop_tasks[k] = "done"
           THEN runner' = [runner EXCEPT !.enabled = FALSE, !.running = FALSE, !.task = 0]
           ELSE runner' = [runner EXCEPT !.enabled = FALSE, !.running = FALSE,
                                         !.loop_tasks = Cancel(@, k), !.awaiting[d] = k]
    /\ UNCHANGED nonRunnerVars

\* _run_loop receives CancelledError in _tick or in sleep, and breaks
LoopTaskCancelled(k) ==
    /\ runner.loop_tasks[k] = "cancelling"
    /\ runner' = [runner EXCEPT !.loop_tasks[k] = "done"]
    /\ UNCHANGED nonRunnerVars

\* _run_loop wakes from its sleep and finds _running false
LoopTaskExits(k) ==
    /\ runner.loop_tasks[k] = "running"
    /\ ~runner.running
    /\ runner' = [runner EXCEPT !.loop_tasks[k] = "done"]
    /\ UNCHANGED nonRunnerVars

\* disable() after "await self._task": self._task = None
RunnerDisableResumes(d) ==
    /\ runner.awaiting[d] # 0
    /\ runner.loop_tasks[runner.awaiting[d]] = "done"
    /\ runner' = [runner EXCEPT !.task = 0, !.awaiting[d] = 0]
    /\ UNCHANGED nonRunnerVars

\* ------------------------------------------ heartbeat acknowledgement

\* A text is a sequence of blocks: the token HEARTBEAT_OK, a run of white
\* space, a run of other characters (which does not hold the token).
MaxBlocks == 3

\* len(HEARTBEAT_OK)
TOKEN_LEN == 12
\* characters besides the token that an acknowledgement may have
FILLER_LIMIT == 300

Token == [kind |-> "token", len |-> TOKEN_LEN]

TextBlocks ==
    {Token, [kind |-> "space", len |-> 1]}
    \cup {[kind |-> "text", len |-> n] :
             n \in {1, FILLER_LIMIT - TOKEN_LEN, FILLER_LIMIT, FILLER_LIMIT + 1}}

\* the final answers of the heartbeat turn
FinalAnswers == UNION {[1..k -> TextBlocks] : k \in 0..MaxBlocks}

RECURSIVE CharCount(_)
CharCount(s) == IF s = <<>> THEN 0 ELSE Head(s).len + CharCount(Tail(s))

Front(s) == SubSeq(s, 1, Len(s) - 1)

RECURSIVE LStrip(_)
LStrip(s) == IF s # <<>> /\ Head(s).kind = "space" THEN LStrip(Tail(s)) ELSE s

RECURSIVE RStrip(_)
RStrip(s) == IF s # <<>> /\ s[Len(s)].kind = "space" THEN RStrip(Front(s)) ELSE s

\* str.strip()
Strip(s) == RStrip(LStrip(s))

StartsWithToken(s) == s # <<>> /\ s[1] = Token
EndsWithToken(s) == s # <<>> /\ s[Len(s)] = Token

\* only the empty response and the exact token are acknowledgements
HeartbeatOkExact(response) == response = <<>> \/ response = <<Token>>

\* _is_heartbeat_ok
HeartbeatOkCheck(response) ==
    IF response = <<>> \/ response = <<Token>> THEN TRUE
    ELSE IF StartsWithToken(response)
    THEN CharCount(Strip(Tail(response))) <= FILLER_LIMIT
    ELSE IF EndsWithToken(response)
    THEN CharCount(Strip(Front(response))) <= FILLER_LIMIT
    ELSE FALSE

\* _tick from the return of _run_chat_turn, which gives the final answer
\* stripped (or "" after an error frame); callback_set: a notification
\* callback was registered
HeartbeatTickEnds(answer, callback_set) ==
    /\ ~tick.done
    /\ LET response_text == Strip(answer)
           ok == HeartbeatOkCheck(response_text)
       IN  tick' = [done |-> TRUE, answer |-> answer, response |-> response_text,
                    callback_set |-> callback_set,
                    last_result |-> IF ok THEN <<Token>> ELSE response_text,
                    notified |-> IF ~ok /\ callback_set /\ response_text # <<>>
                                 THEN <<response_text>> ELSE <<>>]
    /\ UNCHANGED nonTickVars

\* ------------------------------------------------ notification deque

\* notifications pushed and drains made in one behaviour
MaxPushes == 22
MaxDrains == 3

\* the greatest id of a list of notifications, or `least` when it is empty
RECURSIVE MaxOf(_, _)
MaxOf(q, least) ==
    IF q = <<>> THEN least
    ELSE MaxOf(Tail(q), IF Head(q) > least THEN Head(q) ELSE least)

\* deque.clear() left out
KeepDeque(q) == q

\* deque.clear()
ClearDeque(q) == <<>>

\* _execute_job in announce mode, or the heartbeat callback, appends a
\* notification; the n-th notification pushed is n
PushNotification ==
    /\ drain.pushed < MaxPushes
    /\ pending_notifications' = DequeAppend(pending_notifications, drain.pushed + 1)
    /\ drain' = [drain EXCEPT !.pushed = @ + 1, !.just = FALSE]
    /\ UNCHANGED nonDrainVars

\* GET /cron/notifications: drain_notifications(), which does not await
DrainNotifications ==
    /\ drain.drains < MaxDrains
    /\ LET notifications == pending_notifications
       IN  /\ pending_notifications' = ClearDeque(pending_notifications)
           /\ drain' = [drain EXCEPT !.drains = @ + 1, !.last = notifications,
                                     !.just = TRUE,
                                     !.upto = MaxOf(notifications, @)]
    /\ UNCHANGED nonDrainVars

\* ------------------------------------------------ social access control

\* messages the platforms deliver in one behaviour
MaxSocialMessages == 2

Platforms == {"telegram", "discord"}

\* the senders: u1 is called alice, u2 is called bob
Senders == {[sender_id |-> "u1", sender_name |-> "alice"],
            [sender_id |-> "u2", sender_name |-> "bob"]}

\* UnifiedMessage, n being the order of arrival
SocialMessages ==
    {[n |-> n, platform |-> p, sender_id |-> x.sender_id, sender_name |-> x.sender_name] :
        n \in 1..MaxSocialMessages, p \in Platforms, x \in Senders}

\* the allow-lists of the configuration: ids or names
AllowedUsersChoices == {{}, {"u1"}, {"bob"}}

\* no list for any platform, or a list for telegram
PlatformAllowlistsChoices ==
    {<<>>} \cup {[p \in {"telegram"} |-> list] : list \in {{}, {"u2"}, {"alice"}}}

\* self.platform_allowlists.get(platform): None is taken as the empty set
PlatformAllowed(platform) ==
    IF platform \in DOMAIN social.platform_allowlists
    THEN social.platform_allowlists[platform] ELSE {}

\* an authorisation that looks at the sender's id only
IsAuthorizedById(message) ==
    \/ social.allowed_users = {} /\ PlatformAllowed(message.platform) = {}
    \/ message.sender_id \in social.allowed_users \cup PlatformAllowed(message.platform)

\* _is_authorized
IsAuthorized(message) ==
    LET platform_allowed == PlatformAllowed(message.platform)
        identifiers == {message.sender_id, message.sender_name}
    IN  IF social.allowed_users = {} /\ platform_allowed = {} THEN TRUE
        ELSE IF social.allowed_users # {} /\ identifiers \cap social.allowed_users # {} THEN TRUE
        ELSE IF platform_allowed # {} /\ identifiers \cap platform_allowed # {} THEN TRUE
        ELSE FALSE

\* f"social-{message.platform}-{target_id}" of a direct message
SocialChatId(message) == <<"social", message.platform, message.sender_id>>

\* SocialBrain(...) and start()
SocialBrainStarts(allowed_users, platform_allowlists) ==
    /\ ~social.started
    /\ social' = [social EXCEPT !.started = TRUE, !.allowed_users = allowed_users,
                                !.platform_allowlists = platform_allowlists]
    /\ UNCHANGED nonSocialVars

\* a platform driver puts a message on channel_manager.message_queue
SocialMessageArrives(message) ==
    /\ social.started
    /\ social.arrived < MaxSocialMessages
    /\ message.n = social.arrived + 1
    /\ social' = [social EXCEPT !.arrived = @ + 1, !.queue = Append(@, message)]
    /\ UNCHANGED nonSocialVars

\* _process_queue: one message is taken and given to a task of its own
ProcessQueue ==
    /\ social.started
    /\ social.queue # <<>>
    /\ social' = [social EXCEPT !.queue = Tail(@), !.handling = @ \cup {Head(social.queue)}]
    /\ UNCHANGED nonSocialVars

\* _handle_message: the denial is sent (or sending raises, inside the task),
\* or the chat is made and the turn is run
SocialHandleMessage(message) ==
    /\ message \in social.handling
    /\ IF ~IsAuthorized(message)
       THEN social' = [social EXCEPT !.handling = @ \ {message}, !.denied = @ \cup {message}]
       ELSE social' = [social EXCEPT !.handling = @ \ {message},
                                     !.chats = @ \cup {SocialChatId(message)},
                                     !.turns = @ \cup {message}]
    /\ UNCHANGED nonSocialVars

\* ------------------------------------------------ NodeManager dispatch

\* calls of NodeManager.invoke in one behaviour
MaxManagerInvokes == 2

NodeIds == {"n1", "n2"}

\* a display name may be any text, also another node's id
DisplayNames == {"Phone", "n2"}

Commands == {"echo.test", "camera.snap"}

\* what a caller may name: an id, a name in any case, or nothing registered
Targets == {"n1", "n2", "phone", "nothing"}

\* str.lower
Lower(text) == IF text = "Phone" THEN "phone" ELSE text

RECURSIVE FirstNamed(_, _)
\* the loop of get_node over self.nodes.values(), in insertion order
FirstNamed(order, lower) ==
    IF order = <<>> THEN ""
    ELSE IF Lower(manager.nodes[Head(order)].display_name) = lower THEN Head(order)
    ELSE FirstNamed(Tail(order), lower)

\* get_node: the id first, then the display name; "" is None
GetNode(node_id_or_name) ==
    IF node_id_or_name \in DOMAIN manager.nodes THEN node_id_or_name
    ELSE FirstNamed(manager.order, Lower(node_id_or_name))

\* a node that supports whatever it is asked once it advertises anything
HasAnyCapability(node, command) == manager.nodes[node].capabilities # {}

\* NodeBase.has_capability
HasCapability(node, command) == command \in manager.nodes[node].capabilities

\* a new node (NodeBase.__init__: status "connected") and register_node:
\* self.nodes[node.node_id] = node
RegisterNode(node_id, display_name, capabilities) ==
    /\ manager' = [manager EXCEPT
          !.nodes = [n \in DOMAIN manager.nodes \cup {node_id} |->
                        IF n = node_id
                        THEN [display_name |-> display_name, capabilities |-> capabilities,
                              status |-> "connected"]
                        ELSE manager.nodes[n]],
          !.order = IF node_id \in DOMAIN manager.nodes THEN @ ELSE Append(@, node_id)]
    /\ UNCHANGED nonManagerVars

\* unregister_node
UnregisterNode(node_id) ==
    /\ node_id \in DOMAIN manager.nodes
    /\ manager' = [manager EXCEPT
          !.nodes = [n \in DOMAIN manager.nodes \ {node_id} |-> manager.nodes[n]],
          !.order = SelectSeq(@, LAMBDA n : n # node_id)]
    /\ UNCHANGED nonManagerVars

\* WebSocketNode sets its status when its socket fails
NodeStatusDisconnected(node_id) ==
    /\ node_id \in DOMAIN manager.nodes
    /\ manager.nodes[node_id].status = "connected"
    /\ manager' = [manager EXCEPT !.nodes[node_id].status = "disconnected"]
    /\ UNCHANGED nonManagerVars

\* NodeManager.invoke up to the call of node.invoke
ManagerInvoke(node_id_or_name, command) ==
    /\ manager.calls < MaxManagerInvokes
    /\ LET node == GetNode(node_id_or_name)
           call == [NoCall EXCEPT !.target = node_id_or_name, !.command = command]
       IN  manager' = [manager EXCEPT
              !.calls = @ + 1,
              !.last =
                 IF node = "" THEN [call EXCEPT !.raised = "Node not found"]
                 ELSE IF manager.nodes[node].status # "connected"
                      THEN [call EXCEPT !.raised = "cannot invoke"]
                 ELSE IF ~HasCapability(node, command)
                      THEN [call EXCEPT !.raised = "does not support command",
                                        !.available = manager.nodes[node].capabilities]
                 ELSE [call EXCEPT !.node = node],
              !.invoked =
                 IF /\ node # ""
                    /\ manager.nodes[node].status = "connected"
                    /\ HasCapability(node, command)
                 THEN @ + 1 ELSE @]
    /\ UNCHANGED nonManagerVars

\* ------------------------------------------------------------ node host

\* messages the server sends the host in one behaviour
MaxHostMessages == 3

\* self._handlers: the commands of the host
HostHandlers == {"speaker.speak"}

\* the messages of the server: invoke (the request id may be missing), ping,
\* or a type the host does not know
HostMessages ==
    {[type |-> "invoke", request_id |-> r, command |-> c] :
        r \in {"req-1", "req-2", ""}, c \in {"speaker.speak", "nonexistent.cmd"}}
    \cup {[NoHostMessage EXCEPT !.type = "ping"], [NoHostMessage EXCEPT !.type = "event"]}

\* what awaiting the handler does: it returns a dict json.dumps takes, it
\* returns one json.dumps refuses, or it raises an Exception
HandlerOutcomes == {"returns", "unserialisable", "raises"}

\* a host that has a handler for whatever it is asked
AnyHandler(command) == TRUE

\* self._handlers.get(command)
HandlerFound(command) == command \in HostHandlers

\* the result message _handle_invoke builds for a message and the outcome of
\* its handler
ResultMessage(data, outcome) ==
    IF ~HandlerFound(data.command)
    THEN [type |-> "result", request_id |-> data.request_id, success |-> FALSE,
          error |-> "Unknown command", result |-> "none"]
    ELSE IF outcome = "returns"
    THEN [type |-> "result", request_id |-> data.request_id, success |-> TRUE,
          error |-> "none", result |-> "handler result"]
    ELSE [type |-> "result", request_id |-> data.request_id, success |-> FALSE,
          error |-> IF outcome = "raises" THEN "str(e) of the handler"
                    ELSE "str(e) of json.dumps",
          result |-> "none"]

\* the server sends the host a message
ServerSendsHost(message) ==
    /\ host.ws = "open"
    /\ host.delivered < MaxHostMessages
    /\ host' = [host EXCEPT !.delivered = @ + 1, !.inbox = Append(@, message)]
    /\ UNCHANGED nonHostVars

\* NodeHost.stop, from the signal handler
HostStop ==
    /\ ~host.stop
    /\ host' = [host EXCEPT !.stop = TRUE]
    /\ UNCHANGED nonHostVars

\* the connection is lost; messages already received can still be read
HostConnectionCloses ==
    /\ host.ws = "open"
    /\ host' = [host EXCEPT !.ws = "closed"]
    /\ UNCHANGED nonHostVars

\* one round of `async for message in ws`, _handle_invoke included: ws.send
\* on a closed socket raises ConnectionClosed, which ends run_once (from the
\* except branch too, whose own send raises again)
HostLoopStep(outcome) ==
    /\ host.looping
    /\ host.inbox # <<>>
    /\ LET data == Head(host.inbox)
           took == [host EXCEPT !.inbox = Tail(@),
                                !.last = [message |-> data, outcome |-> "none"]]
       IN  IF host.stop
           THEN /\ outcome = "returns"
                /\ host' = [took EXCEPT !.looping = FALSE]
           ELSE IF data.type = "invoke"
           THEN /\ HandlerFound(data.command) \/ outcome = "returns"
                /\ host' =
                     IF host.ws = "open"
                     THEN [took EXCEPT !.results = Append(@, ResultMessage(data, outcome)),
                                       !.last.outcome = IF HandlerFound(data.command)
                                                        THEN outcome ELSE "none"]
                     ELSE [took EXCEPT !.looping = FALSE,
                                       !.last.outcome = IF HandlerFound(data.command)
                                                        THEN outcome ELSE "none"]
           ELSE IF data.type = "ping"
           THEN /\ outcome = "returns"
                /\ host' = IF host.ws = "open" THEN [took EXCEPT !.pongs = @ + 1]
                           ELSE [took EXCEPT !.looping = FALSE]
           ELSE /\ outcome = "returns"
                /\ host' = took
    /\ UNCHANGED nonHostVars

\* ------------------------------------------------ the /ws/node endpoint

\* messages a node sends after its handshake, per connection
MaxNodeMessages == 1

\* what receive_json meets first: a valid connect message, a connect message
\* pydantic refuses, an object of another type, JSON that is no object, text
\* that is no JSON, or the end of the connection
FirstMessages ==
    {"connect", "connect_invalid", "other_type", "not_object", "not_json", "disconnect"}

\* what it meets in the message loop
LaterMessages == {"object", "not_object", "not_json", "disconnect"}

\* the node of a connection: uuid4 gives each its own id
NodeOf(c) == c

\* node_manager.unregister_node: the status is set only if the node was there
EndpointUnregister(c) ==
    [endpoint EXCEPT !.nodes = @ \ {NodeOf(c)},
                     !.conn[c].status = IF NodeOf(c) \in endpoint.nodes
                                        THEN "disconnected" ELSE @]

\* websocket.accept()
EndpointAccepts(c) ==
    /\ endpoint.conn[c].pc = "none"
    /\ endpoint' = [endpoint EXCEPT !.conn[c].pc = "handshake"]
    /\ UNCHANGED nonEndpointVars

\* node_websocket_endpoint from the first receive_json to the message loop,
\* or to its end; a socket the endpoint leaves open is closed by the server
\* when the endpoint returns
EndpointHandshake(c, first) ==
    /\ endpoint.conn[c].pc = "handshake"
    /\ endpoint' =
         IF first \in {"other_type", "connect_invalid"}
         THEN [endpoint EXCEPT !.conn[c].pc = "ended", !.conn[c].first = first,
                               !.conn[c].replies = <<"error">>,
                               !.conn[c].close = "1002 Invalid handshake"]
         ELSE IF first = "connect"
         THEN [endpoint EXCEPT !.nodes = @ \cup {NodeOf(c)},
                               !.conn[c].pc = "looping", !.conn[c].first = first,
                               !.conn[c].status = "connected",
                               !.conn[c].replies = <<"connected">>]
         ELSE [endpoint EXCEPT !.conn[c].pc = "ended", !.conn[c].first = first,
                               !.conn[c].close = "by the server"]
    /\ UNCHANGED nonEndpointVars

\* one round of the message loop: handle_message, or an exception of
\* receive_json or handle_message and the finally clause
EndpointLoop(c, message) ==
    /\ endpoint.conn[c].pc = "looping"
    /\ IF message = "object"
       THEN /\ endpoint.conn[c].handled < MaxNodeMessages
            /\ endpoint' = [endpoint EXCEPT !.conn[c].handled = @ + 1]
       ELSE endpoint' = [EndpointUnregister(c) EXCEPT !.conn[c].pc = "ended",
                                                      !.conn[c].close = "by the server"]
    /\ UNCHANGED nonEndpointVars

\* server shutdown: node.close() and unregister_node for a registered node
EndpointShutdown(c) ==
    /\ NodeOf(c) \in endpoint.nodes
    /\ endpoint' = [EndpointUnregister(c) EXCEPT !.conn[c].close = "node.close()"]
    /\ UNCHANGED nonEndpointVars

\* ------------------------------------------- preferences and the config

\* calls of process_turn by the chat route and SocialBrain in one behaviour
MaxPrefsCalls == 2

PreferenceKeys == {"model", "agent", "tools"}

\* values a client or the social configuration gives a key
SuppliedValues ==
    [model |-> {"req-provider/req-model"}, agent |-> {"ReqAgent"}, tools |-> {"ReqTool"}]

\* values the user may have saved
SavedValues ==
    [model |-> {None, "test-provider/test-model"}, agent |-> {None, "TestAgent"},
     tools |-> {None, "TestTool"}]

\* the `config` objects of a request body: any of the keys, or none
RequestConfigs ==
    UNION {[keys -> {"req-provider/req-model", "ReqAgent", "ReqTool"}] :
              keys \in SUBSET PreferenceKeys}

\* a request config gives each key a value of its kind
WellFormed(config) == \A k \in DOMAIN config : config[k] \in SuppliedValues[k]

\* the user saves preferences (POST /preferences)
SavePreferences(model, agent, tools) ==
    /\ prefs.saved # [model |-> model, agent |-> agent, tools |-> tools]
    /\ prefs' = [prefs EXCEPT !.saved = [model |-> model, agent |-> agent, tools |-> tools]]
    /\ UNCHANGED nonPrefsVars

\* chat(): config_override = config.copy() if config else {}
ChatConfigOverride(config) ==
    /\ prefs.calls < MaxPrefsCalls
    /\ WellFormed(config)
    /\ prefs' = [prefs EXCEPT !.calls = @ + 1,
                              !.call = [caller |-> "chat", supplied |-> config,
                                        config_override |-> config]]
    /\ UNCHANGED nonPrefsVars

\* SocialBrain._handle_message: config_override takes self.model and
\* self.tools as they were given to SocialBrain, None when they were not
SocialConfigOverride(model, tools) ==
    /\ prefs.calls < MaxPrefsCalls
    /\ prefs' = [prefs EXCEPT
          !.calls = @ + 1,
          !.call = [caller |-> "social",
                    supplied |-> [k \in {j \in {"model", "tools"} :
                                            (IF j = "model" THEN model ELSE tools) # None} |->
                                     IF k = "model" THEN model ELSE tools],
                    config_override |-> [model |-> model, tools |-> tools,
                                         mcp_enabled |-> None]]]
    /\ UNCHANGED nonPrefsVars

\* --------------------------------------------- create_agent: the model

\* the models a provider offers
ProviderModels == {"m1", "m2"}

\* the default_models of PROVIDER_CONFIG
ProviderDefaults == <<"m1", "m2">>

\* sorted(list(set(...))) of models
SortedModels(models) ==
    IF models = {} THEN <<>>
    ELSE IF models = {"m1"} THEN <<"m1">>
    ELSE IF models = {"m2"} THEN <<"m2">>
    ELSE <<"m1", "m2">>

\* the values CONFIG.model_options may have
ModelOptionsChoices == {<<>>, <<"m1">>, <<"m2">>, <<"m2", "m1">>}

\* what a config may ask for: nothing, a model a provider offers, or one
\* nobody knows
RequestedModels == {None, "m1", "m2", "unknown-model"}

\* the agent types a config may name
RequestedAgents == {None, "CodeAgent", "ToolcallingAgent", "NoSuchAgent"}

\* get_enabled_models_from_db
EnabledModelsFromDb ==
    IF creation.provider_config = <<>>
    THEN IF creation.model_options # <<>> THEN creation.model_options ELSE ProviderDefaults
    ELSE SortedModels(creation.provider_config[1])

\* create_agent lines 142-153: the list the requested model is looked up in
EnabledModels ==
    IF EnabledModelsFromDb # <<>> THEN EnabledModelsFromDb ELSE creation.model_options

SeqContains(seq, x) == \E i \in 1..Len(seq) : seq[i] = x

\* a choice that takes the first enabled model whatever was asked
SelectFirst(model_id, enabled_models) == enabled_models[1]

\* create_agent lines 155-164
SelectModel(model_id, enabled_models) ==
    IF model_id = None \/ ~SeqContains(enabled_models, model_id)
    THEN enabled_models[1]
    ELSE model_id

\* the user enables models in Settings, or the configuration file changes
ConfigureModels(provider_config, model_options) ==
    /\ <<provider_config, model_options>> #
          <<creation.provider_config, creation.model_options>>
    /\ creation' = [creation EXCEPT !.provider_config = provider_config,
                                    !.model_options = model_options]
    /\ UNCHANGED nonCreationVars

\* create_agent(config): it raises, or it returns an agent on a model
CreateAgent(model, agent) ==
    /\ LET enabled_models == EnabledModels
           call == [NoCreateCall EXCEPT !.called = TRUE, !.model = model, !.agent = agent,
                                        !.enabled = enabled_models]
       IN  creation' = [creation EXCEPT !.call =
              IF enabled_models = <<>>
              THEN [call EXCEPT !.raised = "No LLM models are enabled"]
              ELSE IF agent \notin {None, "CodeAgent", "ToolcallingAgent"}
              THEN [call EXCEPT !.raised = "Unknown agent",
                                !.model_id = SelectModel(model, enabled_models)]
              ELSE [call EXCEPT !.model_id = SelectModel(model, enabled_models),
                                !.built = TRUE]]
    /\ UNCHANGED nonCreationVars

\* ------------------------------------------- daily logs and the reindex

\* calls of append_daily_log, blocks written with the file tools, and calls
\* of reindex_from_markdown in one behaviour
MaxAppends == 1
MaxEdits == 1
MaxReindexes == 2

\* the facts of the memory extraction; importance in tenths
ExtractedFacts ==
    {[content |-> "likes tea", category |-> "personal", importance |-> 8,
      tags |-> <<"drink", "habit">>],
     [content |-> "uses vim", category |-> "technical", importance |-> 5, tags |-> <<>>]}

\* the facts of one call, in order: one fact, or two different ones
FactLists ==
    {<<f>> : f \in ExtractedFacts}
        \cup {pair \in {<<f, g>> : f, g \in ExtractedFacts} : pair[1] # pair[2]}

\* a line of the file is the sequence of the pieces of text it is made of;
\* <<>> is the empty line

\* f"\n## {now} (em dash) {chat_id[:8]}\n", the lines of it
WrittenHeader == << <<>>, <<"## ", "10:00", " (em dash) ", "chat-123">>, <<>> >>

\* f"- [{category}] {content}{tag_str}", the tags between backquotes
WrittenFactLine(fact) ==
    <<"- [", fact.category, "] ", fact.content>>
       \o (IF fact.tags # <<>> THEN <<" (backquote)", fact.tags, "(backquote)">> ELSE <<>>)

RECURSIVE WrittenFactLines(_)
WrittenFactLines(facts) ==
    IF facts = <<>> THEN <<>>
    ELSE <<WrittenFactLine(Head(facts))>> \o WrittenFactLines(Tail(facts))

\* the file after append_daily_log(chat_id, facts): the header line first
\* when the file is new; the last line of text ends with a newline
AppendedLog(log, facts) ==
    (IF log = <<>> THEN << <<"# Daily Log - ", "2026-01-01">> >> ELSE log)
       \o WrittenHeader \o WrittenFactLines(facts)

\* the block of a fact in the form the indexer reads, as a person or the
\* agent may write it with the file tools
GrammarBlock(fact) ==
    << <<"## ", "10:00", " - Chat: ", "chat123">>,
       <<"- **[", fact.category, "]** ", fact.content, " (importance: ", fact.importance, ")">> >>
       \o (IF fact.tags # <<>> THEN << <<"  ", "- Tags:", fact.tags>> >> ELSE <<>>)

\* DAILY_LOG_ENTRY_PATTERN.match(line)
HeaderMatch(line) ==
    /\ Len(line) >= 4
    /\ line[1] = "## "
    /\ line[3] = " - Chat: "

\* FACT_LINE_PATTERN.match(line)
FactMatch(line) ==
    /\ Len(line) >= 7
    /\ line[1] = "- **["
    /\ line[3] = "]** "
    /\ line[5] = " (importance: "
    /\ line[7] = ")"

\* lines[j].startswith("  ")
Continuation(line) == line # <<>> /\ line[1] = "  "

RECURSIVE ContinuationEnd(_, _)
\* the j at which the look-ahead loop stops
ContinuationEnd(lines, j) ==
    IF j <= Len(lines) /\ Continuation(lines[j]) THEN ContinuationEnd(lines, j + 1) ELSE j

RECURSIVE TagsOf(_, _, _, _)
\* the tags of the last "- Tags:" line among lines[i..j-1]
TagsOf(lines, i, j, tags) ==
    IF i >= j THEN tags
    ELSE TagsOf(lines, i + 1, j,
                IF Len(lines[i]) >= 3 /\ lines[i][2] = "- Tags:" THEN lines[i][3] ELSE tags)

RECURSIVE ParseFrom(_, _)
\* the while loop of _parse_daily_log from line i on
ParseFrom(lines, i) ==
    IF i > Len(lines) THEN <<>>
    ELSE IF HeaderMatch(lines[i]) THEN ParseFrom(lines, i + 1)
    ELSE IF FactMatch(lines[i])
    THEN LET j == ContinuationEnd(lines, i + 1)
         IN  << [content |-> lines[i][4], category |-> lines[i][2],
                 importance |-> lines[i][6], tags |-> TagsOf(lines, i + 1, j, <<>>)] >>
                \o ParseFrom(lines, j)
    ELSE ParseFrom(lines, i + 1)

\* _parse_daily_log(content, date): the facts, without the metadata of the
\* source
ParseDailyLog(lines) == ParseFrom(lines, 1)

SeqToSet(seq) == {seq[i] : i \in 1..Len(seq)}

\* a fact as the tuple {content, category, importance, tags}, the tags
\* without their order
FactTuple(fact) ==
    [content |-> fact.content, category |-> fact.category,
     importance |-> fact.importance, tags |-> SeqToSet(fact.tags)]

\* append_daily_log(chat_id, facts)
AppendDailyLog(facts) ==
    /\ memory.appends < MaxAppends
    /\ memory' = [memory EXCEPT
          !.appends = @ + 1,
          !.log = AppendedLog(@, facts),
          !.written_since = TRUE,
          !.appended = @ \cup {FactTuple(facts[i]) : i \in 1..Len(facts)}]
    /\ UNCHANGED nonMemoryVars

\* a block in the indexer's form is added to the file with the file tools
WriteGrammarBlock(fact) ==
    /\ memory.edits < MaxEdits
    /\ memory' = [memory EXCEPT
          !.edits = @ + 1,
          !.written_since = TRUE,
          !.log = (IF @ = <<>> THEN << <<"# Daily Log - ", "2026-01-01">> >> ELSE @)
                     \o GrammarBlock(fact)]
    /\ UNCHANGED nonMemoryVars

\* the rows of the user stay where they are
KeptRows(clear_existing) == memory.rows

\* lancedb_store.delete_all_memories(user_id) when clear_existing is set
ClearedRows(clear_existing) == IF clear_existing THEN <<>> ELSE memory.rows

RECURSIVE IndexedRows(_, _, _)
\* the loop over the facts: a fact whose embedding or insertion raises is
\* counted as an error and left out
IndexedRows(facts, i, failed) ==
    IF i > Len(facts) THEN <<>>
    ELSE (IF i \in failed THEN <<>> ELSE <<[content |-> facts[i].content,
                                            importance |-> facts[i].importance,
                                            category |-> facts[i].category]>>)
            \o IndexedRows(facts, i + 1, failed)

\* reindex_from_markdown(..., clear_existing): delete_fails is
\* delete_all_memories raising, failed the facts whose embedding or
\* insertion raises
ReindexFromMarkdown(clear_existing, delete_fails, failed) ==
    /\ memory.reindexes < MaxReindexes
    /\ delete_fails => clear_existing /\ failed = {}
    /\ LET facts == IF memory.log = <<>> THEN <<>> ELSE ParseDailyLog(memory.log)
       IN  /\ failed \subseteq 1..Len(facts)
           /\ memory' =
                IF delete_fails
                THEN [memory EXCEPT !.reindexes = @ + 1, !.written_since = FALSE,
                         !.last = [NoReindex EXCEPT !.clear_existing = clear_existing,
                                                    !.errors = 1]]
                ELSE [memory EXCEPT !.reindexes = @ + 1, !.written_since = FALSE,
                         !.rows = ClearedRows(clear_existing) \o IndexedRows(facts, 1, failed),
                         !.last = [clear_existing |-> clear_existing,
                                   total_facts |-> Len(facts),
                                   indexed |-> Len(facts) - Cardinality(failed),
                                   errors |-> Cardinality(failed)]]
    /\ UNCHANGED nonMemoryVars

\* ------------------------------------------------ heartbeat interval

\* the largest interval a caller asks for
MaxMinutes == 6

\* what POST /heartbeat/interval may carry: negative, zero or positive
RequestedMinutes == (0 - 2)..MaxMinutes

\* an interval of no minutes is taken too
IntervalNotNegative(minutes) == minutes >= 0

\* set_interval takes an interval of at least 1 minute
IntervalAccepted(minutes) == minutes >= 1

\* start() or enable(), HEARTBEAT.md being there: the loop runs
IntervalLoopStarts ==
    /\ ~interval.running
    /\ interval' = [interval EXCEPT !.running = TRUE]
    /\ UNCHANGED nonIntervalVars

\* stop() or disable()
IntervalLoopStops ==
    /\ interval.running
    /\ interval' = [interval EXCEPT !.running = FALSE]
    /\ UNCHANGED nonIntervalVars

\* set_interval(minutes): ValueError("... at least 1 minute") below 1; else
\* the new interval, and the loop task is replaced when the loop runs
SetInterval(minutes) ==
    /\ interval' =
         IF ~IntervalAccepted(minutes)
         THEN [interval EXCEPT !.last = [called |-> TRUE, minutes |-> minutes,
                                         before |-> interval.interval_minutes,
                                         raised |-> "at least 1 minute",
                                         restarted |-> FALSE]]
         ELSE [interval EXCEPT !.interval_minutes = minutes,
                               !.last = [called |-> TRUE, minutes |-> minutes,
                                         before |-> interval.interval_minutes,
                                         raised |-> "none",
                                         restarted |-> interval.running]]
    /\ UNCHANGED nonIntervalVars

TurnStep(t) ==
    \/ AgentReady(t)
    \/ AgentBuildFails(t)
    \/ \E answer \in Answers(turns[t].chat) : StreamFinalAnswer(t, answer)
    \/ StreamError(t)
    \/ StreamCancelled(t)
    \/ ExtractMemories(t)
    \/ CompressorSetupFails(t)
    \/ CompressContext(t)
    \/ PersistState(t)

\* user-driven turns: POST /chat, POST /chat/stop and the social consumer
Next ==
    \/ \E t \in Turns : ChatRoute(t)
    \/ \E t \in Turns : HandleMessage(t)
    \/ \E c \in ChatIds : StopChat(c)
    \/ \E t \in Turns : TurnStep(t)

Spec == Init /\ [][Next]_vars

\* the scheduler's turns
NextCron ==
    \/ AdvanceClock
    \/ SchedulerTick
    \/ TriggerJobNow
    \/ \E task \in tasks : ExecuteJobSkips(task)
    \/ \E t \in Turns, task \in tasks : ExecuteJob(t, task)
    \/ \E c \in {CRON_CHAT_ID} : StopChat(c)
    \/ \E t \in Turns : TurnStep(t)

SpecCron == InitCron /\ [][NextCron]_vars

\* the heartbeat runner's turns
NextHeartbeat ==
    \/ \E t \in Turns : HeartbeatLoopTick(t)
    \/ HeartbeatTriggerNow
    \/ \E t \in Turns : HeartbeatTriggeredTick(t)
    \/ HeartbeatTriggeredTickSkips
    \/ \E c \in {HEARTBEAT_CHAT_ID} : StopChat(c)
    \/ \E t \in Turns : TurnStep(t)

SpecHeartbeat == Init /\ [][NextHeartbeat]_vars

\* one companion node, its client and the callers of its capabilities
NextNode ==
    \/ NodeConnects
    \/ NodeHandshakeRejected
    \/ \E i \in Invokes : ManagerInvokeRefused(i)
    \/ \E i \in Invokes : Invoke(i)
    \/ \E i \in Invokes : InvokeOnLostSocket(i)
    \/ \E type \in {"result", "pong"}, request_id \in RequestIds \cup {0} :
          ClientSends(type, request_id)
    \/ ClientDrops
    \/ NodeHandleMessage
    \/ \E i \in Invokes : InvokeReturns(i)
    \/ \E i \in Invokes : InvokeTimesOut(i)
    \/ \E i \in Invokes : InvokeConnectionError(i)
    \/ EndpointDisconnects
    \/ NodeClose

SpecNode == Init /\ [][NextNode]_vars

\* the callers of get_or_create_agent
NextAgent ==
    \/ \E config \in Configs, reset \in BOOLEAN : GetOrCreateAgent(config, reset)
    \/ \E config \in Configs, reset \in BOOLEAN : GetOrCreateAgentRaises(config, reset)

SpecAgent == Init /\ [][NextAgent]_vars

\* concurrent activations of process_turn sharing the agent cache
NextProcess ==
    \/ \E u \in Holders, config \in Configs, stored \in StoredStates :
          ProcessTurnGetsAgent(u, config, stored)
    \/ \E u \in Holders : ProcessTurnStreams(u)
    \/ \E u \in Holders : ProcessTurnEnds(u)

SpecProcess == Init /\ [][NextProcess]_vars


\* requests through the API key middleware
NextAuth ==
    \/ \E api_keys \in ConfiguredKeys, first \in {"key1", "key2", "key3", None} :
          MiddlewareMade(api_keys, first)
    \/ \E path \in RequestPaths, method \in RequestMethods, api_key \in PresentedKeys :
          Dispatch(path, method, api_key)

SpecAuth == Init /\ [][NextAuth]_vars


\* uses of the agent state codec
NextCodec ==
    \/ \E agent \in AgentStates, dumps \in {"json", "pickle", "none"}, create_ok \in BOOLEAN :
          CodecRoundTrip(agent, dumps, create_ok)
    \/ \E blob \in ForeignBlobs, create_ok \in BOOLEAN : CodecDecode(blob, create_ok)

SpecCodec == Init /\ [][NextCodec]_vars

\* an agent whose memory grows and is compressed
NextCompressor ==
    \/ AgentAppendsStep
    \/ \E tokens_over \in BOOLEAN, llm \in {"summary", "empty", "raises"},
          memory_enabled \in BOOLEAN :
          CompressContextCall(tokens_over, llm, memory_enabled)

SpecCompressor == Init /\ [][NextCompressor]_vars

\* the routes POST /heartbeat/enable and /heartbeat/disable, and the loop tasks
NextRunner ==
    \/ \E md_exists \in BOOLEAN : RunnerEnable(md_exists)
    \/ \E d \in Disables : RunnerDisable(d)
    \/ \E k \in LoopTasks : LoopTaskCancelled(k)
    \/ \E k \in LoopTasks : LoopTaskExits(k)
    \/ \E d \in Disables : RunnerDisableResumes(d)

SpecRunner == Init /\ [][NextRunner]_vars

\* one heartbeat tick whose turn completes
NextTick ==
    \E answer \in FinalAnswers, callback_set \in BOOLEAN : HeartbeatTickEnds(answer, callback_set)

SpecTick == Init /\ [][NextTick]_vars

\* the producers of notifications and the client that polls them
NextDrain ==
    \/ PushNotification
    \/ DrainNotifications

SpecDrain == Init /\ [][NextDrain]_vars

\* the social consumer and the platforms
NextSocial ==
    \/ \E allowed_users \in AllowedUsersChoices, platform_allowlists \in PlatformAllowlistsChoices :
          SocialBrainStarts(allowed_users, platform_allowlists)
    \/ \E message \in SocialMessages : SocialMessageArrives(message)
    \/ ProcessQueue
    \/ \E message \in SocialMessages : SocialHandleMessage(message)

SpecSocial == Init /\ [][NextSocial]_vars

\* the event loop runs the consumer and the tasks it made
SpecSocialFair ==
    SpecSocial /\ WF_vars(ProcessQueue)
               /\ \A message \in SocialMessages : WF_vars(SocialHandleMessage(message))

\* the registry and its callers
NextManager ==
    \/ \E node_id \in NodeIds, display_name \in DisplayNames,
          capabilities \in SUBSET Commands :
          RegisterNode(node_id, display_name, capabilities)
    \/ \E node_id \in NodeIds : UnregisterNode(node_id)
    \/ \E node_id \in NodeIds : NodeStatusDisconnected(node_id)
    \/ \E node_id_or_name \in Targets, command \in Commands :
          ManagerInvoke(node_id_or_name, command)

SpecManager == Init /\ [][NextManager]_vars

\* the node host and its server
NextHost ==
    \/ \E message \in HostMessages : ServerSendsHost(message)
    \/ HostStop
    \/ HostConnectionCloses
    \/ \E outcome \in HandlerOutcomes : HostLoopStep(outcome)

SpecHost == Init /\ [][NextHost]_vars

\* the endpoint calls of the connections
NextEndpoint ==
    \/ \E c \in Connections : EndpointAccepts(c)
    \/ \E c \in Connections, first \in FirstMessages : EndpointHandshake(c, first)
    \/ \E c \in Connections, message \in LaterMessages : EndpointLoop(c, message)
    \/ \E c \in Connections : EndpointShutdown(c)

SpecEndpoint == Init /\ [][NextEndpoint]_vars

\* the user's preferences and the two callers that take a config
NextPrefs ==
    \/ \E model \in SavedValues.model, agent \in SavedValues.agent, tools \in SavedValues.tools :
          SavePreferences(model, agent, tools)
    \/ \E config \in RequestConfigs : ChatConfigOverride(config)
    \/ \E model \in SuppliedValues.model \cup {None}, tools \in SuppliedValues.tools \cup {None} :
          SocialConfigOverride(model, tools)

SpecPrefs == Init /\ [][NextPrefs]_vars

\* the settings and the builds of an agent
NextCreation ==
    \/ \E provider_config \in {<<>>} \cup {<<enabled>> : enabled \in SUBSET ProviderModels},
          model_options \in ModelOptionsChoices :
          ConfigureModels(provider_config, model_options)
    \/ \E model \in RequestedModels, agent \in RequestedAgents : CreateAgent(model, agent)

SpecCreation == Init /\ [][NextCreation]_vars

\* the writers of the daily log and the rebuild of the index
NextMemory ==
    \/ \E facts \in FactLists : AppendDailyLog(facts)
    \/ \E fact \in ExtractedFacts : WriteGrammarBlock(fact)
    \/ \E clear_existing, delete_fails \in BOOLEAN, failed \in SUBSET (1..MaxEdits) :
          ReindexFromMarkdown(clear_existing, delete_fails, failed)

SpecMemory == Init /\ [][NextMemory]_vars

\* the heartbeat loop and the callers of set_interval
NextInterval ==
    \/ IntervalLoopStarts
    \/ IntervalLoopStops
    \/ \E minutes \in RequestedMinutes : SetInterval(minutes)

SpecInterval == Init /\ [][NextInterval]_vars

\* the event loop resumes an invoke whose future is done, and the timer of
\* asyncio.wait_for fires
SpecNodeFair ==
    SpecNode /\ \A i \in Invokes :
        WF_vars(InvokeReturns(i) \/ InvokeTimesOut(i) \/ InvokeConnectionError(i))

\* ------------------------------------------------------------- properties

TurnsOn(c) == {t \in Turns : InFlight(t) /\ turns[t].chat = c}

\* C1: at any moment at most one process_turn is running for a chat id,
\* whichever entry points (POST /chat, social, background) started the turns.
C1_OneTurnPerChat == \A c \in ChatIds : Cardinality(TurnsOn(c)) <= 1

\* C2: the scheduler never has two turns in progress on the chat of a cron
\* job, and the heartbeat runner never has two in progress on heartbeat-main,
\* however ticks and trigger-now requests interleave.
C2_OneBackgroundTurnPerChat ==
    /\ Cardinality({t \in TurnsOn(CRON_CHAT_ID) : IsCron(t)}) <= 1
    /\ Cardinality({t \in TurnsOn(HEARTBEAT_CHAT_ID) : IsHeartbeat(t)}) <= 1

\* the step in which turn t ends
TurnEnds(t) == InFlight(t) /\ turns'[t].pc = "idle"

\* C3: a turn cancelled by a stop request before it produced a final answer
\* records no assistant message: when it ends, the chat's message log has the
\* length it had before the turn.
C3_CancelledTurnRecordsNothing ==
    [][\A t \in Turns :
         TurnEnds(t) /\ turns[t].cancelled /\ turns[t].full_response = ""
            => Len(chats'[turns[t].chat].messages) = Len(turns[t].start_log)]_vars

\* C4: when a turn has run to completion the chat's message log is the log
\* from before the turn followed by one user and one assistant message, and
\* the same store update writes the agent state.
C4_CompletedTurnAppendsOnePair ==
    [][\A t \in Turns :
         TurnEnds(t) /\ turns[t].pc = "persist" /\ ~turns[t].cancelled /\ ~turns[t].error
            => /\ chats'[turns[t].chat].messages =
                     turns[t].start_log \o <<UserMessage(t), AssistantMessage(t)>>
               /\ chats'[turns[t].chat].agent_state = SerializeAgent(t)]_vars

\* C5: a turn whose agent run ends - with an error event as with an answer -
\* goes on to the post-run steps (memory extraction, compression,
\* persistence), whichever caller consumes it.
C5_ErrorTurnRunsPostSteps ==
    [][\A t \in Turns :
         turns[t].pc = "stream" /\ turns'[t].pc # "stream"
            => turns'[t].pc = "extract"]_vars

\* C6: no failure in memory extraction or context compression, the setting up
\* of the compressor included, leaves process_turn or keeps the turn from
\* persisting: a turn in those steps goes on to persistence.
C6_MemoryFailuresAreContained ==
    [][\A t \in Turns :
         turns[t].pc \in {"extract", "compress"}
            => turns'[t].pc \in {"extract", "compress", "persist"}]_vars

\* the execution of turn t ends as a failure (the exception branch of
\* _execute_job), as a success (the turn returned a response), or with the
\* turn given up at an error event
ExecutionFails(t) == IsCron(t) /\ TurnEnds(t) /\ turns[t].pc \in {"agent", "compress"}
ExecutionSucceeds(t) == IsCron(t) /\ TurnEnds(t) /\ turns[t].pc = "persist"
ExecutionGivesUp(t) == IsCron(t) /\ TurnEnds(t) /\ turns[t].pc = "stream"
ExecutionStarts(t) ==
    FreeSlot(t) /\ turns'[t].pc = "agent" /\ turns'[t].caller \in {"cron_tick", "cron_trigger"}

\* C7: after the k-th failed execution in a row (1 <= k <= 5) the job is
\* active with retry_count = k and next_run_at = the start of that execution
\* + 2^(k-1) minutes; the failure after those deactivates the job.
C7_BackoffAfterKthFailure ==
    [][\A t \in Turns :
         ExecutionFails(t) =>
            LET k == failed_in_a_row'
            IN  IF k <= max_retries
                THEN /\ cron_job'.active
                     /\ cron_job'.retry_count = k
                     /\ cron_job'.next_run_at = turns[t].now + Pow2(k - 1)
                ELSE ~cron_job'.active]_vars

\* x is a timestamp that cron_expr matches
CronMatches(expr, x) == x % expr = 0

\* x is the first timestamp matching cron_expr that is later than start
FirstMatchAfter(expr, start, x) ==
    /\ x > start
    /\ CronMatches(expr, x)
    /\ \A y \in (start + 1)..(x - 1) : ~CronMatches(expr, y)

C9_ResultsPairedByRequestId ==
    [][/\ \A i \in Invokes :
             invocations[i].future.state = "pending" /\ invocations'[i].future.state = "result"
                => /\ inbox # <<>>
                   /\ Head(inbox).type = "result"
                   /\ Head(inbox).request_id = invocations[i].request_id
                   /\ invocations'[i].future.value = Head(inbox).result
       /\ \A i \in Invokes :
             invocations[i].pc = "waiting" /\ invocations'[i].pc = "returned"
                => /\ invocations[i].future.state = "result"
                   /\ invocations'[i].result = invocations[i].future.value
       /\ (inbox # <<>> /\ inbox' = Tail(inbox) /\ Head(inbox).request_id \notin pending)
                => UNCHANGED <<pending, invocations>>]_vars

\* two invocations were pending together, their results came in the other
\* order and each call returned its own, and a result with an unknown request
\* id was dropped
C9_Witness ==
    /\ invocations[1].pc = "returned"
    /\ invocations[2].pc = "returned"
    /\ invocations[1].result > invocations[2].result
    /\ invocations[2].result > 0
    /\ unknown_warned # {}

\* C10: once the node's WebSocket connection is lost, no request on that node
\* is left pending: each has failed with ConnectionError at the disconnect
\* instead of waiting for the invocation timeout.
C10_DisconnectFailsPending ==
    (node_status = "disconnected" /\ NODE_ID \notin nodes)
        => \A i \in Invokes :
              ~(invocations[i].pc = "waiting" /\ invocations[i].future.state = "pending")

\* invoke has ended, with its one outcome
Terminated(i) == invocations[i].pc \in {"returned", "timeout_error", "connection_error"}

\* C11: every invoke on a WebSocket node ends, with one outcome: its result,
\* a timeout error or a connection error; once ended its request id is not
\* pending any more and nothing later (a late or duplicate result) changes it.
C11_InvokeEndsOnce ==
    /\ [](\A i \in Invokes :
            Terminated(i) => /\ invocations[i].request_id \notin pending
                             /\ (invocations[i].pc = "returned")
                                    = (invocations[i].future.state = "result"))
    /\ [][\A i \in Invokes : Terminated(i) => invocations'[i] = invocations[i]]_vars
    /\ \A i \in Invokes : (invocations[i].pc = "waiting") ~> Terminated(i)

\* an invoke timed out and the result for its request id, arriving late, was
\* logged as unknown; another invoke returned its result
C11_Witness ==
    \E i, j \in Invokes :
        /\ invocations[i].pc = "timeout_error"
        /\ invocations[i].request_id \in unknown_warned
        /\ invocations[j].pc = "returned"

\* configs a and b are equal on every key that is not transient
EqualOffTransient(a, b) ==
    \A k \in (DOMAIN a \cup DOMAIN b) \ {"_runtime", "_chat_id", "_user_id"} :
        k \in DOMAIN a /\ k \in DOMAIN b /\ a[k] = b[k]

\* a call of get_or_create_agent returns in this step
AgentCallReturns == agent_call' # agent_call /\ agent_call'.outcome # "raised"

\* C12: get_or_create_agent returns the cached agent, building nothing, if and
\* only if an agent is cached, reset is false and the requested config equals
\* the cached one on every key but _runtime, _chat_id and _user_id; otherwise
\* it builds a new agent and the cache then holds it with the new config.
C12_CacheHitIffSameConfig ==
    [][AgentCallReturns =>
         LET config == agent_call'.config[1]
             hit == /\ agent_instance # 0
                    /\ ~agent_call'.reset
                    /\ agent_config # <<>>
                    /\ EqualOffTransient(config, agent_config[1])
         IN  IF hit
             THEN /\ agent_call'.agent = agent_instance
                  /\ UNCHANGED <<agent_instance, agent_config, agent_builds>>
             ELSE /\ agent_call'.agent # agent_instance
                  /\ agent_call'.agent > agent_builds
                  /\ agent_instance' = agent_call'.agent
                  /\ agent_config' = <<config>>]_vars

\* a call got the cached agent although its _chat_id and _runtime differ from
\* those of the cached config, after an earlier call had replaced the agent
C12_Witness ==
    /\ agent_call.outcome = "cached"
    /\ agent_builds = 2
    /\ agent_config # <<>>
    /\ agent_call.config # agent_config
    /\ agent_call.config[1]["_chat_id"] # agent_config[1]["_chat_id"]

\* texts within the limits the data model gives (observations 4000
\* characters, outputs 2000)
WithinLimits(step) ==
    /\ step.type = "action" => step.text <= OBSERVATIONS_LIMIT
    /\ step.type = "final_answer" => step.text <= OUTPUT_LIMIT

\* ---- C13: decode(encode(a)) keeps step_number, max_steps, the number and
\* order of the steps and the fields of each step, for every agent state a,
\* steps of an unknown type included (read here for texts within the
\* documented limits).  The code drops a step of an unknown type when it
\* decodes.
C13_RoundTripKeepsState ==
    (codec.op = "round_trip" /\ codec.blob.format = "json" /\ codec.result.outcome = "agent"
        /\ \A i \in 1..Len(codec.agent.steps) : WithinLimits(codec.agent.steps[i]))
        => /\ codec.result.step_number = codec.agent.step_number
           /\ codec.result.max_steps = codec.agent.max_steps
           /\ Len(codec.result.steps) = Len(codec.agent.steps)
           /\ \A i \in 1..Len(codec.agent.steps) :
                 /\ i <= Len(codec.result.steps)
                 /\ codec.agent.steps[i].type \in KnownStepTypes
                       => codec.result.steps[i] = codec.agent.steps[i]

\* ---- C14: stored bytes that are neither a version 2 JSON document nor a
\* legacy pickle that can be decoded give None, and deserialize_agent does not
\* raise.  A pickle stream cut short makes pickle.loads raise EOFError, which
\* leaves deserialize_agent.
C14_UndecodableGivesNone ==
    (codec.op = "decode"
        /\ ~(codec.blob.format = "json" /\ codec.blob.version = STATE_FORMAT_VERSION)
        /\ codec.blob.format # "pickle")
        => codec.result.outcome = "none"

\* ---- C15: when compress_context reports that it compressed, the memory has
\* strictly fewer steps than before, and the count is the same as before only
\* when it reports no compression.  With exactly keep_recent_count + 2 steps
\* one step is replaced by one summary step and the call reports True.
C15_CompressionShrinksMemory ==
    compressor.called =>
        /\ compressor.reported => Len(compressor.steps) < compressor.before
        /\ Len(compressor.steps) = compressor.before => ~compressor.reported

\* a loop task that runs its loop and has no cancellation pending
LoopAlive(k) == runner.loop_tasks[k] = "running"

\* ---- C16: under any interleaving of enable and disable calls at most one
\* loop task is alive, and when no call is in flight a loop task is alive
\* exactly when the runner reports running.  An enable() that runs while a
\* disable() waits for the old loop makes a task whose handle the disable()
\* then clears: the next disable() cannot cancel it.
C16_OneLoopTask ==
    /\ Cardinality({k \in LoopTasks : LoopAlive(k)}) <= 1
    /\ (\A d \in Disables : runner.awaiting[d] = 0)
          => ((\E k \in LoopTasks : LoopAlive(k)) <=> runner.running)

\* an acknowledgement as the specification words it: the exact token, or the
\* token at the start or the end with at most 300 other characters
AckAsSpecified(r) ==
    \/ r = <<Token>>
    \/ (StartsWithToken(r) \/ EndsWithToken(r)) /\ CharCount(r) - TOKEN_LEN <= FILLER_LIMIT

\* an acknowledgement as the runner takes it: white space next to the token
\* is not counted, and the start of the response is looked at first
AckTrimmed(r) ==
    \/ r = <<Token>>
    \/ StartsWithToken(r) /\ CharCount(Strip(Tail(r))) <= FILLER_LIMIT
    \/ ~StartsWithToken(r) /\ EndsWithToken(r) /\ CharCount(Strip(Front(r))) <= FILLER_LIMIT

\* ---- C17 as stated: after a heartbeat turn completes with response r the
\* callback is invoked with r exactly when r is not an acknowledgement.  An
\* empty response is no acknowledgement and is not notified.
C17_NotifiedIffNotAck ==
    (tick.done /\ tick.callback_set)
        => (tick.notified = <<tick.response>> <=> ~AckAsSpecified(tick.response))

\* ---- C17 amended: after a heartbeat turn completes with response r the
\* callback, when one is set, is invoked with r exactly when r is not empty
\* and is not an acknowledgement, the filler being counted without the white
\* space around it; nothing else is notified.
C17_NotifiedIffNonEmptyNotAck ==
    tick.done =>
        /\ tick.callback_set =>
              (tick.notified = <<tick.response>>
                  <=> (tick.response # <<>> /\ ~AckTrimmed(tick.response)))
        /\ tick.notified \in {<<>>, <<tick.response>>}
        /\ ~tick.callback_set => tick.notified = <<>>

\* C17: a response of the token and some filler was taken as an
\* acknowledgement, with a callback set
C17_Witness ==
    /\ tick.done /\ tick.callback_set
    /\ StartsWithToken(tick.response) /\ Len(tick.response) > 1
    /\ tick.notified = <<>>

\* ---- C18: a turn on a chat id that has no record creates the chat, and
\* when the turn has completed the store holds for it a log of two messages
\* and an agent state.  process_turn never creates a chat, and its update of
\* a chat that is not there writes nothing.
C18_FirstTurnCreatesChat ==
    [][\A t \in Turns :
         (TurnEnds(t) /\ turns[t].pc = "persist" /\ ~turns[t].cancelled /\ ~turns[t].error
             /\ turns[t].caller = "http" /\ ~chats[turns[t].chat].exists)
            => /\ chats'[turns[t].chat].exists
               /\ Len(chats'[turns[t].chat].messages) = 2
               /\ chats'[turns[t].chat].agent_state # 0]_vars

\* ---- C19: when a setup step of a turn fails the turn yields one error
\* frame and ends; no exception leaves the iterator and the agent is not
\* run.  Seen from the caller: a turn that ends in its setup is read as a
\* turn that yielded an error frame.  get_or_create_agent is called outside
\* any try, so its exception reaches the caller and no frame is yielded.
C19_SetupFailureYieldsErrorFrame ==
    [][\A t \in Turns :
         (TurnEnds(t) /\ turns[t].pc = "agent") => CallerOnErrorEvent(t)]_vars

\* ---- C20: drain_notifications returns every pending notification in the
\* order it was pushed and leaves the deque empty; a notification is returned
\* by at most one drain (every id returned is above all ids returned before),
\* and a drain that follows a drain at once returns nothing.
C20_DrainReturnsPendingOnce ==
    [][drain'.drains = drain.drains + 1
          => /\ drain'.last = pending_notifications
             /\ pending_notifications' = <<>>
             /\ \A i, j \in 1..Len(drain'.last) : i < j => drain'.last[i] < drain'.last[j]
             /\ \A i \in 1..Len(drain'.last) : drain'.last[i] > drain.upto
             /\ drain.just => drain'.last = <<>>]_vars

\* C20: a drain returned several notifications, the oldest evicted, and the
\* drain right after it returned nothing
C20_Witness ==
    /\ drain.drains >= 2 /\ drain.just /\ drain.last = <<>>
    /\ drain.upto > NotificationsMaxLen
    /\ pending_notifications = <<>>

\* the task trigger_job_now made runs _execute_job to its first suspension
TriggerTaskRuns == "cron_trigger" \in tasks /\ "cron_trigger" \notin tasks'

\* the step opened a run row and started a turn of the trigger on the cron chat
ExecutionStarted(caller) ==
    /\ Len(cron_runs') = Len(cron_runs) + 1
    /\ cron_runs'[Len(cron_runs')].status = "running"
    /\ \E t \in Turns :
          /\ turns[t].pc = "idle" /\ turns'[t].pc = "agent"
          /\ turns'[t].caller = caller /\ turns'[t].chat = CRON_CHAT_ID
          /\ turns'[t].run_id = Len(cron_runs')

SenderAuthorised(message) ==
    \/ social.allowed_users = {} /\ PlatformAllowed(message.platform) = {}
    \/ message.sender_id \in social.allowed_users
    \/ message.sender_name \in social.allowed_users
    \/ message.sender_id \in PlatformAllowed(message.platform)
    \/ message.sender_name \in PlatformAllowed(message.platform)

\* ---- C22: a social message makes a chat and runs a turn only if its sender
\* is authorised; a message of an unauthorised sender is denied and makes
\* neither; and the consumer goes on: every message that arrived is handled,
\* whatever came before it.
C22_OnlyAuthorisedSendersRunTurns ==
    /\ [](/\ \A message \in social.turns : SenderAuthorised(message)
          /\ \A message \in social.denied : ~SenderAuthorised(message)
          /\ social.chats = {SocialChatId(message) : message \in social.turns})
    /\ \A message \in SocialMessages :
          (message \in social.handling \/ \E i \in 1..Len(social.queue) : social.queue[i] = message)
             ~> (message \in social.turns \cup social.denied)

\* C22: a sender listed by name ran a turn after another sender was denied
C22_Witness ==
    /\ social.allowed_users = {"bob"}
    /\ \E denied \in social.denied, message \in social.turns :
          /\ denied.n < message.n
          /\ message.sender_name = "bob"

\* the registered nodes a caller's text names: by id, or by display name
\* whatever the case of the letters
NamedNodes(target) ==
    {n \in DOMAIN manager.nodes :
        n = target \/ Lower(manager.nodes[n].display_name) = Lower(target)}

\* a call of NodeManager.invoke happens in this step
ManagerInvokeCalled == manager'.calls = manager.calls + 1

\* ---- C23: NodeManager.invoke calls a node's invoke only when the named
\* node is registered, connected and advertises the command; otherwise it
\* raises (not found / not connected / not supported, with the commands the
\* node has) and no node's invoke is called.
C23_DispatchOnlyToConnectedCapableNode ==
    [][ManagerInvokeCalled =>
         LET call == manager'.last
             node == GetNode(call.target)
         IN  /\ call.raised = "none" <=>
                   /\ node \in NamedNodes(call.target)
                   /\ manager.nodes[node].status = "connected"
                   /\ call.command \in manager.nodes[node].capabilities
             /\ call.raised = "none" =>
                   call.node = node /\ manager'.invoked = manager.invoked + 1
             /\ call.raised # "none" =>
                   /\ manager'.invoked = manager.invoked
                   /\ call.raised = "Node not found" <=> NamedNodes(call.target) = {}
                   /\ call.raised = "cannot invoke" =>
                         manager.nodes[node].status # "connected"
                   /\ call.raised = "does not support command" =>
                         /\ call.command \notin manager.nodes[node].capabilities
                         /\ call.available = manager.nodes[node].capabilities]_vars

\* C23: a command was refused as unsupported by a node found by its display
\* name, after an earlier call was dispatched
C23_Witness ==
    /\ manager.invoked = 1
    /\ manager.last.raised = "does not support command"
    /\ manager.last.target = "phone"
    /\ manager.last.available # {}

\* the host reads an invoke message in this step
InvokeReceived ==
    /\ host.inbox # <<>>
    /\ Head(host.inbox).type = "invoke"
    /\ host'.inbox = Tail(host.inbox)

\* the step sends exactly one result, and it answers the message read
OneResultSent ==
    /\ Len(host'.results) = Len(host.results) + 1
    /\ SubSeq(host'.results, 1, Len(host.results)) = host.results
    /\ host'.results[Len(host'.results)].type = "result"
    /\ host'.results[Len(host'.results)].request_id = Head(host.inbox).request_id

\* ... with the handler's result, or with an error when the command is
\* unknown or the handler failed
ResultTellsOutcome ==
    LET reply == host'.results[Len(host'.results)]
    IN  IF Head(host.inbox).command \in HostHandlers /\ host'.last.outcome = "returns"
        THEN reply.success /\ reply.result = "handler result" /\ reply.error = "none"
        ELSE ~reply.success /\ reply.error # "none" /\ reply.result = "none"

\* ---- C24 as stated: every invoke message the host receives is answered by
\* exactly one result message with its request id, success with the
\* handler's result or failure with an error.
C24_EveryInvokeAnsweredOnce ==
    [][InvokeReceived => OneResultSent /\ ResultTellsOutcome]_vars

\* ---- C24, amended: that holds for the invoke messages read while the host
\* is not stopping and its socket is open; any other message read leaves
\* the results as they are, so no invoke is answered twice.
C24_InvokeAnsweredOnceWhileOpen ==
    [][host'.inbox # host.inbox /\ Len(host'.inbox) < Len(host.inbox) =>
         IF InvokeReceived /\ ~host.stop /\ host.ws = "open"
         THEN OneResultSent /\ ResultTellsOutcome
         ELSE host'.results = host.results]_vars

\* C24: a handler that raised was answered with a failure, after an unknown
\* command was
C24_Witness ==
    /\ Len(host.results) = 2
    /\ host.results[1].error = "Unknown command"
    /\ host.results[2].request_id = "req-2"
    /\ host.last.outcome = "raises"
    /\ ~host.results[2].success

\* ---- C25: the registry holds a node only for a connection whose handshake
\* was valid and whose endpoint is still serving it; a first message that
\* is no valid connect message is answered with an error and a close, and
\* registers nothing; a node whose connection ended is out of the registry
\* and disconnected.
C25_RegistryHoldsOnlyLiveHandshakenNodes ==
    \A c \in Connections :
        LET conn == endpoint.conn[c]
        IN  /\ NodeOf(c) \in endpoint.nodes =>
                  conn.first = "connect" /\ conn.pc = "looping" /\ conn.status = "connected"
            /\ conn.pc = "ended" /\ conn.first \notin {"connect", "disconnect"} =>
                  /\ conn.replies = <<"error">>
                  /\ conn.close # "none"
                  /\ conn.status = "none"
            /\ conn.pc = "ended" /\ conn.first = "connect" =>
                  NodeOf(c) \notin endpoint.nodes /\ conn.status = "disconnected"

\* ---- C26: in the config passed to process_turn, a key of model, agent and
\* tools that the request or the social configuration supplies has the
\* supplied value, and a key it does not supply has the user's saved
\* preference, when there is one.
C26_ConfigCarriesSavedPreferences ==
    [][prefs'.calls = prefs.calls + 1 =>
         \A k \in PreferenceKeys :
            LET call == prefs'.call
            IN  IF k \in DOMAIN call.supplied
                THEN k \in DOMAIN call.config_override
                     /\ call.config_override[k] = call.supplied[k]
                ELSE prefs.saved[k] # None =>
                        /\ k \in DOMAIN call.config_override
                        /\ call.config_override[k] = prefs.saved[k]]_vars

\* ---- C27: create_agent uses the requested model when it is among the
\* enabled models and the first enabled model when the requested one is not;
\* with no model enabled at all it raises the no-model error and builds no
\* agent.
C27_ModelIsRequestedOrFirstEnabled ==
    LET call == creation.call
        enabled == {call.enabled[i] : i \in 1..Len(call.enabled)}
    IN  /\ call.built => call.raised = "none" /\ call.model_id \in enabled
        /\ call.built /\ call.model \in enabled => call.model_id = call.model
        /\ call.built /\ call.model # None /\ call.model \notin enabled =>
              call.model_id = call.enabled[1]
        /\ call.raised = "No LLM models are enabled" <=>
              call.called /\ enabled = {}
        /\ call.raised # "none" => ~call.built

\* C27: the second of two enabled models was asked for and the agent was
\* built on it
C27_Witness ==
    /\ creation.call.built
    /\ creation.call.enabled = <<"m1", "m2">>
    /\ creation.call.model = "m2"
    /\ creation.call.model_id = "m2"

\* ---- C28: a daily log made by calls of append_daily_log alone parses,
\* with the grammar of the rebuild, to exactly the set of tuples
\* {content, category, importance, tags} that were appended.
C28_ParsedLogIsWhatWasAppended ==
    memory.edits = 0 =>
       {FactTuple(fact) : fact \in SeqToSet(ParseDailyLog(memory.log))} = memory.appended

\* a reindex with clear_existing runs in this step, after one that ran with
\* clear_existing over the same file
SecondClearingReindex ==
    /\ memory'.reindexes = memory.reindexes + 1
    /\ memory'.last.clear_existing
    /\ memory.reindexes >= 1
    /\ memory.last.clear_existing
    /\ ~memory.written_since

C31_ErrorEventIsFailedExecution ==
    [][\A t \in Turns :
         ExecutionGivesUp(t) =>
            /\ cron_job'.last_error # ""
            /\ cron_runs'[turns[t].run_id].status = "error"
            /\ IF turns[t].job_retry < max_retries
               THEN /\ cron_job'.retry_count = turns[t].job_retry + 1
                    /\ cron_job'.next_run_at = turns[t].now + Pow2(turns[t].job_retry)
               ELSE ~cron_job'.active]_vars

\* C32: every run row opened by a cron execution is closed exactly once, with
\* status success or error, when the execution's turn terminates, and the
\* status of a closed run never changes afterwards.
C32_RunClosedExactlyOnce ==
    /\ [](\A i \in DOMAIN cron_runs :
             /\ cron_runs[i].closes <= 1
             /\ cron_runs[i].closes = 0 <=> cron_runs[i].status = "running")
    /\ [][\A t \in Turns :
             IsCron(t) /\ TurnEnds(t) =>
                /\ cron_runs[turns[t].run_id].closes = 0
                /\ cron_runs'[turns[t].run_id].closes = 1
                /\ cron_runs'[turns[t].run_id].status \in {"success", "error"}]_vars
    /\ [][\A i \in DOMAIN cron_runs :
             cron_runs[i].closes > 0 => cron_runs'[i] = cron_runs[i]]_vars

\* C33: two turns in flight at the same time never operate on the same agent
\* object: outside get_or_create_agent, where the agent mutex is not held,
\* no two activations of process_turn hold the same agent.
C33_TurnsInFlightShareNoAgent ==
    \A u, v \in Holders :
        u # v /\ holders[u].pc # "idle" /\ holders[v].pc # "idle"
            => holders[u].agent # holders[v].agent

\* the last call of compress_context performed a compression
CompressionPerformed == compressor.called /\ compressor.reported

\* C34: when compression is performed, step 0 and the last
\* max(5, 0.25 * max_history_steps) steps are kept unchanged and in their
\* order, and all steps between them are replaced by exactly one summary
\* step placed directly after step 0.
C34_CompressionKeepsFirstAndRecent ==
    CompressionPerformed =>
        LET old == compressor.old
            new == compressor.steps
            recent == Max(5, max_history_steps \div 4)
        IN  /\ Len(old) > recent + 1
            /\ new[1] = old[1]
            /\ new[2].archived
            /\ Len(new) = recent + 2
            /\ \A i \in 1..recent : new[2 + i] = old[Len(old) - recent + i]

\* a compression replaced more than one step, an older summary among them
C34_Witness ==
    /\ CompressionPerformed
    /\ Len(compressor.old) > Len(compressor.steps) + 1
    /\ compressor.old[2].archived

\* C35: after a compression was performed the agent has at most
\* max_history_steps steps, and at most one step holds the ARCHIVED CONTEXT
\* SUMMARY marker.
C35_CompressedMemoryWithinLimit ==
    CompressionPerformed =>
        /\ Len(compressor.steps) <= max_history_steps
        /\ Cardinality({i \in 1..Len(compressor.steps) : compressor.steps[i].archived}) <= 1

\* a memory over the limit that already held a summary was compressed again
C35_Witness ==
    /\ CompressionPerformed
    /\ Len(compressor.old) > max_history_steps
    /\ \E i \in 1..Len(compressor.old) : compressor.old[i].archived
    /\ Cardinality({i \in 1..Len(compressor.steps) : compressor.steps[i].archived}) = 1

\* the steps that carry a step_number are in non-decreasing order of it
MonotoneByStepNumber(steps) ==
    \A i, j \in 1..Len(steps) :
        i < j /\ steps[i].type = "action" /\ steps[j].type = "action"
            => steps[i].step_number <= steps[j].step_number

\* C36: in every persisted agent state, the states written after a
\* compression included, the decoded step sequence is monotone in
\* step_number over the steps that carry one.
C36_PersistedStepsMonotone ==
    compressor.called =>
        MonotoneByStepNumber(DeserializeSteps(SerializeSteps(compressor.steps)))

\* C37: whenever the compression of a turn replaces a window of steps and
\* memory is enabled, a conversation turn made from that window has been
\* handed to the memory manager before the window is replaced.
C37_WindowFlushedBeforeReplaced ==
    CompressionPerformed /\ compressor.memory_enabled
        => compressor.flushed # <<>> /\ compressor.flushed = compressor.window

\* the heartbeat tick of turn t ends with the turn given up at an error event
TickGivesUp(t) == IsHeartbeat(t) /\ TurnEnds(t) /\ turns[t].pc = "stream"

\* C38: a heartbeat tick whose turn ends with an error event leaves
\* last_error set to that error in the runner's status and does not record
\* last_result = HEARTBEAT_OK for that tick.
C38_ErrorEventLeavesLastError ==
    [][\A t \in Turns :
         TickGivesUp(t) =>
            /\ heartbeat'.last_error # ""
            /\ heartbeat'.last_result = heartbeat.last_result]_vars

\* C39: if building a replacement agent fails, the cached agent and the
\* cached config are left exactly as they were before the call; the cached
\* config is at every moment the config from which the cached agent was
\* built: the two are only ever replaced together, by a call that builds an
\* agent, with the config of that call.
C39_FailedBuildLeavesCache ==
    [][/\ agent_call'.outcome = "raised"
          => agent_instance' = agent_instance /\ agent_config' = agent_config
       /\ agent_instance' # agent_instance \/ agent_config' # agent_config
          => /\ agent_call'.outcome = "built"
             /\ agent_instance' = agent_call'.agent
             /\ agent_instance' # agent_instance
             /\ agent_config' = agent_call'.config]_vars

\* a replacement build failed while an agent was cached
C39_Witness ==
    /\ agent_call.outcome = "raised"
    /\ agent_instance # 0
    /\ agent_config # <<>>
    /\ agent_call.config # agent_config

\* C40: when several API keys are configured, a request presenting any one
\* of the configured keys is authenticated, and a request presenting a key
\* that is not configured is rejected with 403.
C40_AnyConfiguredKeyAuthenticates ==
    auth.last.dispatched /\ Cardinality(auth.api_keys) > 1
    /\ auth.last.path \notin PublicPaths /\ auth.last.method # "OPTIONS"
    /\ auth.last.api_key # None
        => IF auth.last.api_key \in auth.api_keys
           THEN auth.last.status = 200
           ELSE auth.last.status = 403

====
